---- MODULE Spec2Model ----
(***************************************************************************)
(* Model of the image-service provider layer:                              *)
(*   app/services/model_providers/aliyun.py    (provider A, "aliyun")      *)
(*   app/services/model_providers/liblibai.py  (provider B, "liblibai")    *)
(*   app/core/config.py                        (settings)                  *)
(*                                                                         *)
(* One call of call_model is one job.  The job's program counter pc moves  *)
(* only at the suspension points of the coroutine: the HTTP calls          *)
(* (job creation, status query, image download) and asyncio.sleep.         *)
(*                                                                         *)
(* Python values.  A dict is a function whose DOMAIN is its set of keys.   *)
(* Strings that are embedded in error messages (task ids, vendor messages) *)
(* are sequences of string fragments, so that concatenation is \o and the  *)
(* empty string is <<>>; every other string is a TLA+ string.              *)
(*                                                                         *)
(* Environment.  A vendor response that is transported is a JSON object    *)
(* whose nested members, where present, have the JSON type the provider    *)
(* reads them with (objects, lists of objects, strings, numbers); any key  *)
(* may be absent.  Creating the local image directory succeeds; a failing  *)
(* GET or file write of one image is the failing case of download_image.   *)
(* Parameter values have their documented JSON types, except that a value   *)
(* the code passes through int() (n, seed of provider A) may be any int or  *)
(* any str; generateParams, where a caller supplies it, is an object.       *)
(***************************************************************************)
EXTENDS Integers, Sequences, FiniteSets, TLC

VARIABLES
    provider,       \* which provider class runs the job
    settings,       \* app.core.config.settings as seen by the job
    model,          \* call_model argument
    parameters,     \* call_model argument: the caller's dict object
    pc,             \* position of the coroutine
    validated_params,
    request_data,   \* JSON body of the job-creation request
    api_endpoint,   \* where the job-creation request is posted
    job_id,         \* task_id (A) / generate_uuid (B)
    i,              \* loop variable of "for i in range(max_retries)"
    response,       \* the job-creation exchange (NoResponse before it completes)
    status_response,\* the last completed status exchange
    results,        \* vendor image list being materialized
    k,              \* index (1-based) of the image being downloaded
    images,         \* formatted_response["images"]
    outcome,        \* what call_model delivered to its caller
    nCreate,        \* job-creation requests issued
    nPolls,         \* status queries issued
    nDownloads,     \* image downloads issued
    delivered,      \* kinds of the outcomes delivered so far, in order
    nFailedDl,      \* downloads that ended in download_image's except branch
    cause,          \* the raise/return site that ended the job
    validations,    \* results of the direct validate_parameters calls, in order
    sign_pc,        \* per signing job: position in the request sequence of call_model
    signed_calls,   \* HTTP requests sent to vendor B with their signature parameters
    uuid_drawn,     \* values uuid.uuid4() has returned so far in this process
    clock,          \* wall clock, in the unit the reader formats it with
    file_store,     \* the artifact store: path -> who wrote the file there
    mat_next,       \* per materializing job: index of its next image
    requested,      \* file_name argument of download_file
    located,        \* what download_file answered
    elapsed,        \* logical time since the job was submitted
    cancel_requested \* the caller has called cancel() on the job's task

\* the variables of one call_model job
jobvars == <<provider, settings, model, parameters, pc, validated_params, request_data,
             api_endpoint, job_id, i, response, status_response, results, k, images, outcome,
             nCreate, nPolls, nDownloads, delivered, nFailedDl, cause>>

\* everything a call_model job of the single-job view leaves alone: the
\* recorded validations, the request-signing view, the process-wide sources
\* of randomness and time, and the artifact-store view
othervars == <<validations, sign_pc, signed_calls, uuid_drawn, clock,
               file_store, mat_next, requested, located, elapsed, cancel_requested>>

vars == <<jobvars, othervars>>

-----------------------------------------------------------------------------
(* dict helpers *)

Has(d, key) == key \in DOMAIN d

Get(d, key, default) == IF key \in DOMAIN d THEN d[key] ELSE default

Put(d, key, v) == [x \in (DOMAIN d) \cup {key} |-> IF x = key THEN v ELSE d[x]]

EmptyDict == <<>>

\* Python None where a fragment-sequence string is expected
PyNone == <<"None">>

\* "not s" for a fragment-sequence string or None
Falsy(s) == s \in {<<>>, PyNone}

\* .get("code") when the key is absent: None, which is != 0
NoCode == -1

-----------------------------------------------------------------------------
(* bounds of the model *)

\* longest vendor image list
MaxImages == 2

-----------------------------------------------------------------------------
(* config.py *)

ALIYUN_SUPPORTED_MODELS == {"wanx2.1-t2i-turbo", "wanx2.1-t2i-plus", "wanx2.0-t2i-turbo"}

LIBLIBAI_SUPPORTED_MODELS == {"star-3-alpha-t2i", "star-3-alpha-i2i", "liblib-custom"}

\* Settings values the environment (.env) can give.  The supported-model
\* list of provider B is either the default or the default plus one more model.
SettingsChoices ==
    [ DATA_DIR            : {"/srv/app/data"},
      ALIYUN_API_KEY      : {"", "sk-a"},
      LIBLIBAI_ACCESS_KEY : {"", "ak-b"},
      LIBLIBAI_SECRET_KEY : {"", "sk-b"},
      ALIYUN_SUPPORTED_MODELS   : {ALIYUN_SUPPORTED_MODELS},
      LIBLIBAI_SUPPORTED_MODELS : {LIBLIBAI_SUPPORTED_MODELS,
                                   LIBLIBAI_SUPPORTED_MODELS \cup {"sdxl-extra"}} ]

\* The settings a job of provider p reads; the other provider's are configured.
SettingsFor(p) ==
    IF p = "aliyun"
    THEN { s \in SettingsChoices : /\ s.LIBLIBAI_ACCESS_KEY # ""
                                   /\ s.LIBLIBAI_SECRET_KEY # ""
                                   /\ s.LIBLIBAI_SUPPORTED_MODELS = LIBLIBAI_SUPPORTED_MODELS }
    ELSE { s \in SettingsChoices : s.ALIYUN_API_KEY # "" }

\* PROVIDER_SUPPORTED_MODELS[provider]
supported_models(p, s) ==
    [ aliyun   |-> s.ALIYUN_SUPPORTED_MODELS,
      liblibai |-> s.LIBLIBAI_SUPPORTED_MODELS ][p]

-----------------------------------------------------------------------------
(* results of a call that may raise *)

Ok(v)    == [ok |-> TRUE,  value |-> v]
Raise(m) == [ok |-> FALSE, error |-> m]

\* A value that the code passes through int() is a Python int, [int |-> n], or
\* a Python str given as the sequence of its characters, [str |-> <<"1", "2">>].
DecimalDigits == <<"0", "1", "2", "3", "4", "5", "6", "7", "8", "9">>

\* the number that a sequence of decimal digits denotes
RECURSIVE DigitsValue(_)
DigitsValue(cs) ==
    IF cs = <<>> THEN 0
    ELSE 10 * DigitsValue(SubSeq(cs, 1, Len(cs) - 1))
         + (CHOOSE d \in DOMAIN DecimalDigits : DecimalDigits[d] = cs[Len(cs)]) - 1

\* variant: a str that is not a number is read as 0 instead of raising
PyInt_Lenient(x) == IF Has(x, "int") THEN Ok(x.int) ELSE Ok(0)

\* int(x): an int is returned as it is; a str is parsed as an optional sign
\* followed by decimal digits, anything else raises ValueError
PyInt(x) ==
    IF Has(x, "int") THEN Ok(x.int)
    ELSE LET cs     == x.str
             signed == cs # <<>> /\ cs[1] \in {"+", "-"}
             ds     == IF signed THEN Tail(cs) ELSE cs
         IN  IF ds # <<>> /\ \A j \in DOMAIN ds :
                               \E d \in DOMAIN DecimalDigits : DecimalDigits[d] = ds[j]
             THEN Ok(IF signed /\ cs[1] = "-" THEN 0 - DigitsValue(ds) ELSE DigitsValue(ds))
             ELSE Raise(<<"invalid literal for int() with base 10: '">> \o cs \o <<"'">>)

-----------------------------------------------------------------------------
(* AliyunProvider.validate_parameters *)

\* lines 60-64; a size is the sequence of the characters of its text
A_validate_size(v) ==
    IF Has(v, "size") THEN v ELSE Put(v, "size", <<"1", "0", "2", "4", "*", "1", "0", "2", "4">>)

\* variant: the count is converted but not clamped
A_validate_n_NoClamp(v) ==
    IF Has(v, "n") THEN Put(v, "n", [int |-> PyInt(v["n"]).value])
    ELSE Put(v, "n", [int |-> 1])

\* lines 67-70, for an n that int() accepts
A_validate_n(v) ==
    IF Has(v, "n")
    THEN LET x     == PyInt(v["n"]).value
             max_1 == IF x > 1 THEN x ELSE 1
         IN  Put(v, "n", [int |-> IF max_1 < 4 THEN max_1 ELSE 4])
    ELSE Put(v, "n", [int |-> 1])

A_validate_negative_prompt(v) ==
    IF Has(v, "negative_prompt") THEN v ELSE Put(v, "negative_prompt", "")

A_validate_style(v) ==
    IF Has(v, "style") THEN v ELSE Put(v, "style", "<auto>")

\* variant: the reference-image defaults are added to every request
A_validate_ref_Always(v) ==
    LET v1 == IF Has(v, "ref_strength") THEN v ELSE Put(v, "ref_strength", "1.0")
    IN  IF Has(v1, "ref_mode") THEN v1 ELSE Put(v1, "ref_mode", "repaint")

\* lines 81-86; the float 1.0 is written as the text "1.0"
A_validate_ref(v) ==
    IF Has(v, "ref_img")
    THEN LET v1 == IF Has(v, "ref_strength") THEN v ELSE Put(v, "ref_strength", "1.0")
         IN  IF Has(v1, "ref_mode") THEN v1 ELSE Put(v1, "ref_mode", "repaint")
    ELSE v

\* variant: every normalisation moves the seed on by one
A_validate_seed_Advance(v) ==
    IF Has(v, "seed") THEN Put(v, "seed", [int |-> PyInt(v["seed"]).value + 1]) ELSE v

\* lines 89-90, for a seed that int() accepts
A_validate_seed(v) ==
    IF Has(v, "seed") THEN Put(v, "seed", [int |-> PyInt(v["seed"]).value]) ELSE v

\* the int() call of line 68 / line 90 raises
A_int_raises(params, key) == Has(params, key) /\ ~PyInt(params[key]).ok

A_validate_parameters(s, m, params) ==
    IF m \notin supported_models("aliyun", s)
    THEN Raise(<<"Model '", m, "' not supported">>)
    ELSE IF ~Has(params, "prompt")
    THEN Raise(<<"Parameter 'prompt' is required">>)
    ELSE IF A_int_raises(params, "n") THEN PyInt(params["n"])
    ELSE IF A_int_raises(params, "seed") THEN PyInt(params["seed"])
    ELSE Ok(A_validate_seed(A_validate_ref(A_validate_style(
            A_validate_negative_prompt(A_validate_n(A_validate_size(
                Put(params, "model", m))))))))

-----------------------------------------------------------------------------
(* LiblibAIProvider.validate_parameters *)

STAR3_T2I_TEMPLATE == "5d7e67009b344550bc1aa6ccbfa1d7f4"
STAR3_I2I_TEMPLATE == "07e00af4fc464c7ab55ff906f8acf1b7"
F1_I2I_TEMPLATE    == "63b72710c9574457ba303d9d9b8df8bd"
XL_I2I_TEMPLATE    == "9c7d531dc75f476aa833b3d452b8f7ad"
F1_T2I_TEMPLATE    == "6f7c4652458d4802969f8d089cf5b91f"
XL_T2I_TEMPLATE    == "e10adc3949ba59abbe56e057f20f883e"

\* variant: the value is written whether or not the key is there
GpDefault_Overwrite(v, key, val) ==
    Put(v, "generateParams", Put(v["generateParams"], key, val))

\* validated["generateParams"][key] = v  if key is not there yet
GpDefault(v, key, val) ==
    IF Has(v["generateParams"], key) THEN v
    ELSE Put(v, "generateParams", Put(v["generateParams"], key, val))

\* "if 'generateParams' not in validated: validated['generateParams'] = {}"
B_ensure_generateParams(v) ==
    IF Has(v, "generateParams") THEN v ELSE Put(v, "generateParams", EmptyDict)

B_default_templateUuid(v, t) ==
    IF Has(v, "templateUuid") THEN v ELSE Put(v, "templateUuid", t)

B_validate_t2i(v0) ==
    IF ~Has(v0, "prompt")
    THEN Raise(<<"Parameter 'prompt' is required for Star-3 Alpha text-to-image">>)
    ELSE LET v1 == B_ensure_generateParams(v0)
             v2 == GpDefault(v1, "prompt", v1["prompt"])
             v3 == IF ~Has(v2["generateParams"], "aspectRatio")
                      /\ ~Has(v2["generateParams"], "imageSize")
                   THEN GpDefault(v2, "aspectRatio", "portrait") ELSE v2
             v4 == GpDefault(v3, "imgCount", 1)
         IN  Ok(B_default_templateUuid(v4, STAR3_T2I_TEMPLATE))

B_validate_i2i(v0) ==
    IF ~Has(v0, "prompt")
    THEN Raise(<<"Parameter 'prompt' is required for Star-3 Alpha image-to-image">>)
    ELSE IF ~Has(v0, "sourceImage")
    THEN Raise(<<"Parameter 'sourceImage' is required for Star-3 Alpha image-to-image">>)
    ELSE LET v1 == B_ensure_generateParams(v0)
             v2 == GpDefault(v1, "prompt", v1["prompt"])
             v3 == GpDefault(v2, "sourceImage", v2["sourceImage"])
             v4 == GpDefault(v3, "width", 768)
             v5 == GpDefault(v4, "height", 1024)
             v6 == GpDefault(v5, "imgCount", 1)
         IN  Ok(B_default_templateUuid(v6, STAR3_I2I_TEMPLATE))

\* validated.get("baseModelType", "").lower() in ("f.1", "f1")
B_is_f1(v) == Get(v, "baseModelType", "") \in {"f.1", "f1", "F.1", "F1"}

B_custom_template(v) ==
    IF Has(v["generateParams"], "sourceImage")
    THEN IF B_is_f1(v) THEN F1_I2I_TEMPLATE ELSE XL_I2I_TEMPLATE
    ELSE IF B_is_f1(v) THEN F1_T2I_TEMPLATE ELSE XL_T2I_TEMPLATE

B_validate_custom(v0) ==
    IF ~Has(v0, "checkPointId")
    THEN Raise(<<"Parameter 'checkPointId' is required for LiblibAI custom model">>)
    ELSE IF ~Has(v0, "prompt")
    THEN Raise(<<"Parameter 'prompt' is required for LiblibAI custom model">>)
    ELSE LET v1  == B_ensure_generateParams(v0)
             v2  == GpDefault(v1, "checkPointId", v1["checkPointId"])
             v3  == GpDefault(v2, "prompt", v2["prompt"])
             v4  == GpDefault(v3, "sampler", 15)
             v5  == GpDefault(v4, "steps", 20)
             v6  == GpDefault(v5, "cfgScale", 7)
             v7  == GpDefault(v6, "width", 768)
             v8  == GpDefault(v7, "height", 1024)
             v9  == GpDefault(v8, "imgCount", 1)
             v10 == GpDefault(v9, "seed", -1)
         IN  Ok(IF Has(v10, "templateUuid") THEN v10
                ELSE Put(v10, "templateUuid", B_custom_template(v10)))

B_validate_parameters(s, m, params) ==
    IF m \notin supported_models("liblibai", s)
    THEN Raise(<<"Model '", m, "' not supported">>)
    ELSE LET validated == Put(params, "model", m)
         IN  CASE m = "star-3-alpha-t2i" -> B_validate_t2i(validated)
               [] m = "star-3-alpha-i2i" -> B_validate_i2i(validated)
               [] m = "liblib-custom"    -> B_validate_custom(validated)
               [] OTHER                  -> Ok(validated)

validate_parameters(p, s, m, params) ==
    IF p = "aliyun" THEN A_validate_parameters(s, m, params)
    ELSE B_validate_parameters(s, m, params)

-----------------------------------------------------------------------------
(* what the two vendors and the network can answer *)

\* job identifiers a vendor can hand out (fragment sequences)
TaskIds == { <<"t-1">>, <<"failed: ", "t-1">> }

\* free-text messages a vendor can put into a response
VendorMsgs == { <<"quota exceeded">>,
                <<"t-1", " did not complete within expected time">> }

\* sequences over S of length 0..n
RECURSIVE SeqsUpTo(_, _)
SeqsUpTo(S, n) ==
    IF n = 0 THEN { <<>> }
    ELSE LET shorter == SeqsUpTo(S, n - 1)
         IN  shorter \cup { Append(q, e) : q \in shorter, e \in S }

A_ImageLists == SeqsUpTo({ EmptyDict, [url |-> ""], [url |-> "http://a/img"] }, MaxImages)

B_ImageLists ==
    SeqsUpTo({ EmptyDict, [imageUrl |-> ""], [imageUrl |-> "http://b/img"] }, MaxImages)

A_STATUS_VALUES == { "", "PENDING", "RUNNING", "SUCCEEDED", "COMPLETE", "SUCCESS",
                     "FAILED", "CANCELLED", "ERROR" }

\* one vendor image list with a skipped and a downloaded entry
A_SampleList == << [url |-> "http://a/img"], EmptyDict >>
B_SampleList == << [imageUrl |-> "http://b/img"], EmptyDict >>

\* "output" objects of a provider-A status response
A_StatusOutputs ==
    { EmptyDict, [results |-> A_SampleList],
      [task_status |-> "SUCCEEDED", task_metrics |-> [SUCCEEDED |-> 1]] }
    \cup { [task_status |-> st] : st \in A_STATUS_VALUES }
    \cup { [task_status |-> "FAILED", message |-> m] : m \in VendorMsgs }
    \cup { [task_status |-> "SUCCEEDED", results |-> r] : r \in A_ImageLists }

\* bodies of a provider-A status response
A_StatusBodies ==
    { EmptyDict,
      [task_status |-> "",          output |-> [task_status |-> "RUNNING"]],
      [task_status |-> "",          output |-> [task_status |-> "CANCELLED"]],
      [task_status |-> "",          output |-> [task_status |-> "COMPLETE", results |-> A_SampleList]],
      [task_status |-> "RUNNING",   output |-> [task_status |-> "SUCCEEDED", results |-> A_SampleList]],
      [task_status |-> "RUNNING",   output |-> [task_status |-> "FAILED"]],
      [task_status |-> "SUCCEEDED", output |-> [task_status |-> "RUNNING"]],
      [task_status |-> "SUCCEEDED", output |-> [results |-> A_SampleList]],
      [task_status |-> "ERROR",     output |-> [task_status |-> "SUCCEEDED"]],
      [task_status |-> "FAILED",    output |-> [message |-> <<"quota exceeded">>]],
      [task_status |-> "SUCCESS",   result |-> [results |-> A_SampleList]],
      [output |-> [task_status |-> "SUCCEEDED", task_metrics |-> [SUCCEEDED |-> 1]],
       result |-> [results |-> A_SampleList]] }
    \cup { [task_status |-> st] : st \in A_STATUS_VALUES }
    \cup { [output |-> o] : o \in A_StatusOutputs }
    \cup { [task_status |-> "FAILED", message |-> m] : m \in VendorMsgs }


\* "data" objects of a provider-B status response
B_StatusData ==
    { EmptyDict, [generateStatus |-> 2, images |-> B_SampleList], [images |-> B_SampleList] }
    \cup { [generateStatus |-> g] : g \in 0 .. 7 }
    \cup { [generateStatus |-> g, generateMsg |-> m] : g \in {6, 7}, m \in VendorMsgs }
    \cup { [generateStatus |-> 5, images |-> r] : r \in B_ImageLists }

\* bodies of a provider-B status response
B_StatusBodies ==
    { EmptyDict, [code |-> 0], [code |-> 1] }
    \cup { [code |-> 0, data |-> d] : d \in B_StatusData }
    \cup { [code |-> 1, data |-> [generateStatus |-> g]] : g \in {2, 5, 6} }
    \cup { [code |-> 1, msg |-> m] : m \in VendorMsgs }
    \cup { [data |-> [generateStatus |-> g]] : g \in {2, 5, 6} }

A_CreateBodies ==
    { EmptyDict, [output |-> EmptyDict], [output |-> [task_id |-> <<>>]] }
    \cup { [output |-> [task_id |-> t]] : t \in TaskIds }

B_CreateBodies ==
    { EmptyDict, [code |-> 0], [code |-> 1], [code |-> 0, data |-> EmptyDict],
      [code |-> 0, data |-> [generateUuid |-> <<>>]] }
    \cup { [code |-> 1, msg |-> m] : m \in VendorMsgs }
    \cup { [code |-> c, data |-> [generateUuid |-> t]] : c \in {0, 1}, t \in TaskIds }

NoResponse     == [kind |-> "none"]

\* an HTTP exchange: a 2xx response, a non-2xx response, or no response at
\* all, with the str(e) of the httpx exception that is not an HTTPStatusError
Exchanges(bodies, errorBodies) ==
    { [kind |-> "ok", body |-> b] : b \in bodies }
    \cup { [kind |-> "http_error", status_code |-> "500", body |-> b] : b \in errorBodies }
    \cup { [kind |-> "conn_error", text |-> t] :
               t \in { <<"All connection attempts failed">>, <<>> } }

CreateResponses(p) ==
    IF p = "aliyun" THEN Exchanges(A_CreateBodies, {EmptyDict, [output |-> [task_id |-> <<"t-1">>]]})
    ELSE Exchanges(B_CreateBodies, {EmptyDict, [code |-> 0, data |-> [generateUuid |-> <<"t-1">>]]})

StatusResponses(p) ==
    IF p = "aliyun" THEN Exchanges(A_StatusBodies, {EmptyDict, [task_status |-> "RUNNING"]})
    ELSE Exchanges(B_StatusBodies, {EmptyDict, [code |-> 0, data |-> [generateStatus |-> 2]]})

-----------------------------------------------------------------------------
(* outcomes of call_model and the texts of its errors *)

ErrorOutcome(m)  == [kind |-> "error", exc |-> "ValueError", msg |-> m]
ResultOutcome(v) == [kind |-> "result", value |-> v]

\* "except Exception as e: raise ValueError(f'<Provider> API error: {str(e)}')"
Wrap(p, m) ==
    IF p = "aliyun" THEN <<"Aliyun API error: ">> \o m
    ELSE <<"LiblibAI API error: ">> \o m

\* "except httpx.HTTPStatusError as e: ..."
HttpErrorMsg(p, r) ==
    IF p = "aliyun" THEN <<"Aliyun API HTTP error: ", r.status_code, ", ", "<error_detail>">>
    ELSE <<"LiblibAI API HTTP error: ", r.status_code, ", ", "<error_detail>">>

\* f"Task {id} did not complete within expected time"
TimeoutMsg(id) == <<"Task ">> \o id \o <<" did not complete within expected time">>

\* f"Task failed: {error_msg}"
TaskFailedMsg(m) == <<"Task ", "failed: ">> \o m

\* variant: raise_for_status() is not called
RaisesForStatus_Never(r) == FALSE

\* response.raise_for_status(): does the exchange raise HTTPStatusError
RaisesForStatus(r) == r.kind = "http_error"

\* the errors an exchange raises inside the try block, as delivered
TransportError(p, r) ==
    IF r.kind = "conn_error" THEN Raise(Wrap(p, r.text))
    ELSE Raise(HttpErrorMsg(p, r))

IsTransportFailure(r) == r.kind = "conn_error" \/ RaisesForStatus(r)

-----------------------------------------------------------------------------
(* call_model up to the job-creation request *)

\* variant: the API key is not checked
A_credentials_missing_Skip(s) == FALSE

A_credentials_missing(s) == s.ALIYUN_API_KEY = ""

B_credentials_missing(s) == s.LIBLIBAI_ACCESS_KEY = "" \/ s.LIBLIBAI_SECRET_KEY = ""

\* generate_signature(uri) when time.time() gives timestamp and uuid.uuid4()
\* gives signature_nonce (lines 47-68).  The HMAC-SHA1 digest in urlsafe base64
\* (56-61) is the symbolic term of its key and of the content it signs.
generate_signature(s, uri, timestamp, signature_nonce) ==
    IF B_credentials_missing(s) THEN Raise(<<"LiblibAI API keys not configured">>)
    ELSE Ok([AccessKey      |-> s.LIBLIBAI_ACCESS_KEY,
             Signature      |-> [key    |-> s.LIBLIBAI_SECRET_KEY,
                                 signed |-> <<uri, timestamp, signature_nonce>>],
             Timestamp      |-> timestamp,
             SignatureNonce |-> signature_nonce])

\* variant: a top-level sourceImage selects the image-to-image endpoint too
B_api_endpoint_TopLevel(m, v) ==
    CASE m = "star-3-alpha-t2i" -> Ok("/api/generate/webui/text2img/ultra")
      [] m = "star-3-alpha-i2i" -> Ok("/api/generate/webui/img2img/ultra")
      [] m = "liblib-custom" ->
            IF Has(v, "sourceImage") \/ Has(Get(v, "generateParams", EmptyDict), "sourceImage")
            THEN Ok("/api/generate/webui/img2img")
            ELSE Ok("/api/generate/webui/text2img")
      [] OTHER -> Raise(<<"Unsupported model: ", m>>)

\* lines 264-274
B_api_endpoint(m, v) ==
    CASE m = "star-3-alpha-t2i" -> Ok("/api/generate/webui/text2img/ultra")
      [] m = "star-3-alpha-i2i" -> Ok("/api/generate/webui/img2img/ultra")
      [] m = "liblib-custom" ->
            IF Has(Get(v, "generateParams", EmptyDict), "sourceImage")
            THEN Ok("/api/generate/webui/img2img")
            ELSE Ok("/api/generate/webui/text2img")
      [] OTHER -> Raise(<<"Unsupported model: ", m>>)

\* keys of validated_params that do not go into request_data["parameters"]
A_exclude_keys == {"model", "prompt", "negative_prompt", "ref_img"}

\* keys of the special_params table (lines 173-180)
A_special_params == {"size", "n", "style", "seed", "ref_strength", "ref_mode"}

\* request_data["input"] (lines 155-167); "" is the falsy string
A_request_input(v) ==
    LET in0 == [prompt |-> v["prompt"]]
        in1 == IF Get(v, "negative_prompt", "") # ""
               THEN Put(in0, "negative_prompt", v["negative_prompt"]) ELSE in0
    IN  IF Get(v, "ref_img", "") # "" THEN Put(in1, "ref_image", v["ref_img"]) ELSE in1

\* variant: only the special parameters are forwarded
A_custom_keys_None(v) == {}

\* keys copied by the loop "for key, value in validated_params.items()" (188-190)
A_custom_keys(v) ==
    { key \in DOMAIN v : key \notin A_exclude_keys /\ key \notin A_special_params }

\* request_data of provider A (lines 153-190)
A_request_data(v) ==
    [ model      |-> v["model"],
      input      |-> A_request_input(v),
      parameters |-> [ key \in (A_special_params \cap DOMAIN v) \cup A_custom_keys(v)
                         |-> v[key] ] ]

\* request_data of provider B (lines 286-289)
B_request_data(v) ==
    [ templateUuid |-> v["templateUuid"], generateParams |-> v["generateParams"] ]

build_request_data(p, v) == IF p = "aliyun" THEN A_request_data(v) ELSE B_request_data(v)

\* parameters.copy() is a shallow copy: the dict that the caller supplied
\* under "generateParams" is the very object validate_parameters writes its
\* defaults into.  The caller's bag after a call that returned r:
B_caller_parameters_after(params, r) ==
    IF r.ok /\ Has(params, "generateParams")
    THEN Put(params, "generateParams", r.value["generateParams"])
    ELSE params

caller_parameters_after(p, s, m, params) ==
    IF p = "aliyun" THEN params    \* provider A assigns to keys of the copy only
    ELSE B_caller_parameters_after(params, B_validate_parameters(s, m, params))

\* Everything call_model does before it awaits client.post: Raise(..) if it
\* raises there, Ok(validated_params) if the creation request goes out.
A_before_submit(s, m, params) ==
    LET v == A_validate_parameters(s, m, params)
    IN  IF ~v.ok THEN v
        ELSE IF A_credentials_missing(s) THEN Raise(<<"Aliyun API key not configured">>)
        ELSE v

B_before_submit(s, m, params) ==
    LET v == B_validate_parameters(s, m, params)
    IN  IF ~v.ok THEN v
        ELSE LET ep == B_api_endpoint(m, v.value)
             IN  IF ~ep.ok THEN ep
                 \* whether it raises depends on neither the time nor the nonce
                 ELSE LET sig == generate_signature(s, ep.value, 0, <<"0a1b2c3d", 1>>)
                      IN  IF ~sig.ok THEN sig ELSE v

before_submit(p, s, m, params) ==
    IF p = "aliyun" THEN A_before_submit(s, m, params)
    ELSE B_before_submit(s, m, params)

-----------------------------------------------------------------------------
(* the job-creation response *)

A_task_id(task_result) ==
    Get(Get(task_result, "output", EmptyDict), "task_id", PyNone)

B_generate_uuid(task_result) ==
    Get(Get(task_result, "data", EmptyDict), "generateUuid", PyNone)

\* variant: the code of the creation response is not checked
B_create_rejected_Skip(body) == FALSE

\* "if task_result.get('code') != 0" (line 318)
B_create_rejected(body) == Get(body, "code", NoCode) # 0

\* Raise(message as delivered) or Ok(job identifier)
A_handle_create(r) ==
    IF IsTransportFailure(r) THEN TransportError("aliyun", r)
    ELSE IF Falsy(A_task_id(r.body))
    THEN Raise(Wrap("aliyun", <<"Failed to get task_id from response: ", "<task_result>">>))
    ELSE Ok(A_task_id(r.body))

B_handle_create(r) ==
    IF IsTransportFailure(r) THEN TransportError("liblibai", r)
    ELSE IF B_create_rejected(r.body)
    THEN Raise(Wrap("liblibai", <<"LiblibAI API error: ">>
                                 \o Get(r.body, "msg", <<"Unknown error">>)))
    ELSE IF Falsy(B_generate_uuid(r.body))
    THEN Raise(Wrap("liblibai", <<"Failed to get generateUuid from response: ", "<task_result>">>))
    ELSE Ok(B_generate_uuid(r.body))

handle_create(p, r) ==
    IF p = "aliyun" THEN A_handle_create(r) ELSE B_handle_create(r)

-----------------------------------------------------------------------------
(* the polling loop *)

\* "retry_interval = 15": the delay of asyncio.sleep in both providers
retry_interval == 15

\* "max_retries = 120" in both providers (A line 229, B line 330)
max_retries(p) == IF p = "aliyun" THEN 120 ELSE 120

\* variant: "COMPLETE" is not recognised as success
A_SUCCESS_STATUSES_NoComplete == {"SUCCEEDED", "SUCCESS"}

A_SUCCESS_STATUSES == {"SUCCEEDED", "COMPLETE", "SUCCESS"}

\* variant: "ERROR" is not recognised as failure
A_FAILED_STATUSES_NoError == {"FAILED", "CANCELLED"}

A_FAILED_STATUSES  == {"FAILED", "CANCELLED", "ERROR"}

\* variant: generateStatus 4 is taken for success as well
B_SUCCESS_STATUSES_Early == {4, 5}

B_SUCCESS_STATUSES == {5}

\* variant: generateStatus 7 is not recognised as failure
B_FAILED_STATUSES_Only6 == {6}

B_FAILED_STATUSES  == {6, 7}

\* task_status_value of lines 250-252
A_task_status_value(body) ==
    LET top == Get(body, "task_status", "")
    IN  IF top = "" /\ Has(body, "output")
        THEN Get(body["output"], "task_status", "")
        ELSE top

A_error_msg(body) ==
    IF Has(body, "output") /\ Has(body["output"], "message")
    THEN body["output"]["message"]
    ELSE Get(body, "message", <<"Unknown error">>)

B_task_data(body) == Get(body, "data", EmptyDict)

B_generate_status(body) == Get(B_task_data(body), "generateStatus", 0)

\* "if task_status.get('code') != 0" (line 357)
B_status_rejected(body) == Get(body, "code", NoCode) # 0

\* What one iteration does with the status exchange r:
\*   [step |-> "raise", error |-> m]   the job ends with ValueError(m)
\*   [step |-> "materialize"]          _format_response_and_download_images
\*   [step |-> "continue"]             next iteration
StepRaise(m) == [step |-> "raise", error |-> m]

A_poll_step(r) ==
    IF IsTransportFailure(r) THEN StepRaise(TransportError("aliyun", r).error)
    ELSE IF A_task_status_value(r.body) \in A_SUCCESS_STATUSES THEN [step |-> "materialize"]
    ELSE IF A_task_status_value(r.body) \in A_FAILED_STATUSES
    THEN StepRaise(Wrap("aliyun", TaskFailedMsg(A_error_msg(r.body))))
    ELSE [step |-> "continue"]

B_poll_step(r) ==
    IF IsTransportFailure(r) THEN StepRaise(TransportError("liblibai", r).error)
    ELSE IF B_status_rejected(r.body)
    THEN StepRaise(Wrap("liblibai", <<"LiblibAI API error: ">>
                                     \o Get(r.body, "msg", <<"Unknown error">>)))
    ELSE IF B_generate_status(r.body) \in B_SUCCESS_STATUSES THEN [step |-> "materialize"]
    ELSE IF B_generate_status(r.body) \in B_FAILED_STATUSES
    THEN StepRaise(Wrap("liblibai", TaskFailedMsg(
             Get(B_task_data(r.body), "generateMsg", <<"Task failed or timed out">>))))
    ELSE [step |-> "continue"]

poll_step(p, r) == IF p = "aliyun" THEN A_poll_step(r) ELSE B_poll_step(r)

\* variant: the loop is not entered
LoopContinues_Never(p, n) == FALSE

\* "for i in range(max_retries)": is there another iteration after n of them
LoopContinues(p, n) == n < max_retries(p)

-----------------------------------------------------------------------------
(* _format_response_and_download_images *)

\* the vendor image list the provider reads from a SUCCEEDED status body
A_results(api_response) ==
    LET output0 == Get(api_response, "output", EmptyDict)
        output  == IF output0 = EmptyDict /\ Has(api_response, "result")
                   THEN api_response["result"] ELSE output0
    IN  IF Has(output, "results") THEN output["results"]
        ELSE IF Has(output, "task_metrics") /\ Has(output["task_metrics"], "SUCCEEDED")
                /\ Has(api_response, "result")
        THEN Get(api_response["result"], "results", <<>>)
        ELSE <<>>

B_results(body) == Get(B_task_data(body), "images", <<>>)

vendor_results(p, body) == IF p = "aliyun" THEN A_results(body) ELSE B_results(body)

\* result.get("url", "") / image_data.get("imageUrl", "")
image_url(p, entry) ==
    IF p = "aliyun" THEN Get(entry, "url", "") ELSE Get(entry, "imageUrl", "")

\* "if not image_url: continue"
SkipsEntry(p, entry) == image_url(p, entry) = ""

\* first position >= from (1-based) of an entry that is downloaded, else Len + 1
RECURSIVE NextDownload(_, _, _)
NextDownload(p, res, from) ==
    IF from > Len(res) THEN Len(res) + 1
    ELSE IF SkipsEntry(p, res[from]) THEN NextDownload(p, res, from + 1)
    ELSE from

\* datetime.now().strftime("%Y%m%d_%H%M%S") when the clock shows second c
strftime(c) == "20260101_12000" \o ToString(c)

\* the uuid.uuid4().hex[:8] values a single job can see
UuidHex8   == {"0a1b2c3d", "4e5f6a7b"}

\* A: Path(settings.DATA_DIR) / "images" / "aliyun" (line 320); B: data/images/
\* liblibai under the installation root, whatever DATA_DIR is (lines 416-417)
images_dir(p, s) ==
    IF p = "aliyun" THEN <<s.DATA_DIR, "images", "aliyun">>
    ELSE <<"/srv/app/data", "images", "liblibai">>

\* f"{timestamp}_{i}_{uuid}.png" (A), f"liblibai_{timestamp}_{i}_{uuid}.png" (B):
\* a file name is the sequence of the pieces of its text
file_name(p, ts, idx, rnd) ==
    (IF p = "aliyun" THEN <<>> ELSE <<"liblibai_">>)
        \o <<ts, "_", ToString(idx), "_", rnd, ".png">>

\* os.path.join(images_dir, file_name)
JoinPath(dir, name) == [dir |-> dir, name |-> name]

\* the "" that download_image returns from its except branch
EmptyPath == [dir |-> <<>>, name |-> EmptyDict]

\* download_image(url, save_path): save_path if the GET and the write succeed
download_image(succeeds, save_path) == IF succeeds THEN save_path ELSE EmptyPath

\* image_data / image_info appended for position pos (index = pos - 1)
image_record(p, res, pos, saved_path) ==
    [index |-> pos - 1, url |-> image_url(p, res[pos]), local_path |-> saved_path]

\* str.split(sep) on a sequence of characters
RECURSIVE Split(_, _)
Split(cs, sep) ==
    IF \A j \in DOMAIN cs : cs[j] # sep THEN << cs >>
    ELSE LET at == CHOOSE j \in DOMAIN cs : cs[j] = sep /\ \A h \in 1 .. (j - 1) : cs[h] # sep
         IN  << SubSeq(cs, 1, at - 1) >> \o Split(SubSeq(cs, at + 1, Len(cs)), sep)

\* the size keys of provider A's result (lines 352-364): width is assigned
\* before int(size_parts[1]) is evaluated, and the except branch adds size;
\* size_parts is size.split("*"), computed once
A_size_fields(v) ==
    IF ~Has(v, "size") THEN [width |-> 1024, height |-> 1024]
    ELSE CHOOSE fields \in
           { LET w == PyInt([str |-> size_parts[1]])
                 h == PyInt([str |-> size_parts[2]])
             IN  IF Len(size_parts) # 2 THEN [size |-> v["size"]]
                 ELSE IF ~w.ok THEN [size |-> v["size"]]
                 ELSE IF ~h.ok THEN [width |-> w.value, size |-> v["size"]]
                 ELSE [width |-> w.value, height |-> h.value]
             : size_parts \in {Split(v["size"], "*")} } : TRUE

\* variant: the nested imageSize object is not read
B_size_fields_NoNested(generate_params) ==
    IF Has(generate_params, "width") /\ Has(generate_params, "height")
    THEN [width |-> generate_params["width"], height |-> generate_params["height"]]
    ELSE [width |-> 768, height |-> 1024]

\* the size keys of provider B's result (lines 453-462)
B_size_fields(generate_params) ==
    IF Has(generate_params, "width") /\ Has(generate_params, "height")
    THEN [width |-> generate_params["width"], height |-> generate_params["height"]]
    ELSE IF Has(generate_params, "imageSize")
    THEN [width  |-> Get(generate_params["imageSize"], "width", 768),
          height |-> Get(generate_params["imageSize"], "height", 1024)]
    ELSE [width |-> 768, height |-> 1024]

formatted_response(p, v, imgs) ==
    IF p = "aliyun"
    THEN [model |-> Get(v, "model", ""), images |-> imgs,
          prompt |-> Get(v, "prompt", "")] @@ A_size_fields(v)
    ELSE [model |-> Get(v, "model", ""), images |-> imgs,
          prompt |-> Get(Get(v, "generateParams", EmptyDict), "prompt", "")]
         @@ B_size_fields(Get(v, "generateParams", EmptyDict))

-----------------------------------------------------------------------------
(* the job *)

Providers == {"aliyun", "liblibai"}

ModelNames(p) ==
    IF p = "aliyun" THEN {"wanx2.1-t2i-turbo", "star-3-alpha-t2i"}
    ELSE {"star-3-alpha-t2i", "star-3-alpha-i2i", "liblib-custom", "sdxl-extra",
          "wanx2.1-t2i-turbo"}

ParamBags(p) ==
    IF p = "aliyun"
    THEN { EmptyDict, [prompt |-> "a cat"], [n |-> [int |-> 9]],
           [prompt |-> "a cat", n |-> [int |-> 9], negative_prompt |-> "blurry"] }
    ELSE { EmptyDict, [prompt |-> "a cat"], [checkPointId |-> "ckpt-1"],
           [prompt |-> "a cat", sourceImage |-> "src.png"],
           [prompt |-> "a cat", checkPointId |-> "ckpt-1"],
           [prompt |-> "a cat", checkPointId |-> "ckpt-1",
            generateParams |-> [sourceImage |-> "src.png"]] }

\* no validation recorded, no signing job, nothing drawn, an empty store
OthersIdle ==
    /\ validations = <<>>
    /\ sign_pc = <<>> /\ signed_calls = {}
    /\ uuid_drawn = {} /\ clock = 0
    /\ file_store = <<>> /\ mat_next = <<>> /\ requested = <<>> /\ located = <<>>
    /\ elapsed = 0 /\ cancel_requested = FALSE

\* a job that has not called anything yet
JobStart ==
    /\ pc = "start"
    /\ validated_params = EmptyDict
    /\ request_data = EmptyDict
    /\ api_endpoint = ""
    /\ job_id = PyNone
    /\ i = 0
    /\ response = NoResponse
    /\ status_response = NoResponse
    /\ results = <<>>
    /\ k = 0
    /\ images = <<>>
    /\ outcome = [kind |-> "none"]
    /\ nCreate = 0
    /\ nPolls = 0
    /\ nDownloads = 0
    /\ delivered = <<>>
    /\ nFailedDl = 0
    /\ cause = "none"

Init ==
    /\ provider \in Providers
    /\ settings \in SettingsFor(provider)
    /\ model \in ModelNames(provider)
    /\ parameters \in ParamBags(provider)
    /\ JobStart
    /\ OthersIdle

\* variant: the result is handed over but the polling loop is not left
PcAfterReturn_KeepPolling == "sleep"

\* "return result" (line 260 / 371) leaves the polling loop and call_model
PcAfterReturn == "done"

\* call_model raises ValueError(m) / returns v to its caller
Deliver(o, c) ==
    /\ outcome' = o
    /\ delivered' = Append(delivered, o.kind)
    /\ cause' = c
    /\ pc' = IF o.kind = "result" THEN PcAfterReturn ELSE "done"

\* lines 135-209 (A), 255-308 (B): validation, credentials, then the POST
CallModel ==
    /\ pc = "start"
    /\ parameters' = caller_parameters_after(provider, settings, model, parameters)
    /\ LET b == before_submit(provider, settings, model, parameters)
       IN  IF b.ok
           THEN /\ validated_params' = b.value
                /\ request_data' = build_request_data(provider, b.value)
                \* settings.ALIYUN_API_URL (A, 140-147), api_endpoint (B, 264-274)
                /\ api_endpoint' = IF provider = "aliyun"
                                   THEN "/api/v1/services/aigc/text2image/image-synthesis"
                                   ELSE B_api_endpoint(model, b.value).value
                /\ nCreate' = nCreate + 1
                /\ pc' = "create_wait"
                /\ UNCHANGED <<outcome, delivered, cause>>
           ELSE /\ Deliver(ErrorOutcome(b.error), "rejected_before_submit")
                /\ UNCHANGED <<validated_params, request_data, api_endpoint, nCreate>>
    /\ UNCHANGED <<provider, settings, model, job_id, i, response,
                   status_response, results, k, images, nPolls, nDownloads, nFailedDl>>
    /\ UNCHANGED othervars

\* the POST completes: lines 211-226 (A), 310-327 (B)
CreateDone ==
    /\ pc = "create_wait"
    /\ \E r \in CreateResponses(provider) :
          /\ response' = r
          /\ LET h == handle_create(provider, r)
             IN  IF h.ok
                 THEN /\ job_id' = h.value
                      /\ pc' = "sleep"
                      /\ UNCHANGED <<outcome, delivered, cause>>
                 ELSE /\ Deliver(ErrorOutcome(h.error),
                                 IF IsTransportFailure(r) THEN "create_transport"
                                 ELSE "create_rejected")
                      /\ UNCHANGED job_id
    /\ UNCHANGED <<provider, settings, model, parameters, validated_params, i,
                   status_response, results, k, images, nCreate, nPolls,
                   nDownloads, nFailedDl>>
    /\ UNCHANGED <<request_data, api_endpoint, othervars>>

\* asyncio.sleep returns and the status query goes out: lines 232-241 (A), 336-349 (B)
PollSend ==
    /\ pc = "sleep"
    /\ LoopContinues(provider, i)
    /\ nPolls' = nPolls + 1
    /\ pc' = "poll_wait"
    /\ UNCHANGED <<provider, settings, model, parameters, validated_params, job_id,
                   i, response, status_response, results, k, images, outcome,
                   nCreate, nDownloads, delivered, nFailedDl, cause>>
    /\ UNCHANGED <<request_data, api_endpoint, othervars>>

\* _format_response_and_download_images up to its first await, and its return
\* when no (further) entry is downloaded; from is the next position to look at
Materialize(res, from, imgs) ==
    LET pos == NextDownload(provider, res, from)
    IN  /\ results' = res
        /\ k' = pos
        /\ images' = imgs
        /\ IF pos <= Len(res)
           THEN /\ nDownloads' = nDownloads + 1
                /\ pc' = "download_wait"
                /\ UNCHANGED <<outcome, delivered, cause>>
           ELSE /\ Deliver(ResultOutcome(formatted_response(provider, validated_params, imgs)),
                           "returned")
                /\ UNCHANGED nDownloads

\* the status query completes: lines 243-268 (A), 351-377 (B)
PollDone ==
    /\ pc = "poll_wait"
    /\ \E r \in StatusResponses(provider) :
          /\ status_response' = r
          /\ LET st == poll_step(provider, r)
             IN  CASE st.step = "raise" ->
                        /\ Deliver(ErrorOutcome(st.error),
                                   IF IsTransportFailure(r) THEN "poll_transport"
                                   ELSE "vendor_failed")
                        /\ UNCHANGED <<i, results, k, images, nDownloads>>
                   [] st.step = "materialize" ->
                        /\ Materialize(vendor_results(provider, r.body), 1, <<>>)
                        /\ UNCHANGED i
                   [] OTHER ->
                        /\ i' = i + 1
                        /\ IF LoopContinues(provider, i + 1)
                           THEN /\ pc' = "sleep"
                                /\ UNCHANGED <<outcome, delivered, cause>>
                           ELSE Deliver(ErrorOutcome(Wrap(provider, TimeoutMsg(job_id))),
                                        "timeout")
                        /\ UNCHANGED <<results, k, images, nDownloads>>
    /\ UNCHANGED <<provider, settings, model, parameters, validated_params, job_id,
                   response, nCreate, nPolls, nFailedDl>>
    /\ UNCHANGED <<request_data, api_endpoint, othervars>>

\* download_image returns: lines 335-344 (A), 433-443 (B), then the loop goes on
DownloadDone ==
    /\ pc = "download_wait"
    /\ \E succeeds \in BOOLEAN, ts \in {strftime(0)}, rnd \in UuidHex8 :
          LET save_path == JoinPath(images_dir(provider, settings),
                                    file_name(provider, ts, k - 1, rnd))
              saved     == download_image(succeeds, save_path)
          IN  /\ nFailedDl' = IF succeeds THEN nFailedDl ELSE nFailedDl + 1
              /\ Materialize(results, k + 1,
                             Append(images, image_record(provider, results, k, saved)))
    /\ UNCHANGED <<provider, settings, model, parameters, validated_params, job_id,
                   i, response, status_response, nCreate, nPolls>>
    /\ UNCHANGED <<request_data, api_endpoint, othervars>>

Next == CallModel \/ CreateDone \/ PollSend \/ PollDone \/ DownloadDone

Spec == Init /\ [][Next]_vars

-----------------------------------------------------------------------------
(* The job for requests that differ in how they give the image size.         *)

SizedBags(p) ==
    IF p = "aliyun"
    THEN { [prompt |-> "a cat"] }
         \cup { [prompt |-> "a cat", size |-> sz] :
                   sz \in { <<"5", "1", "2", "*", "7", "6", "8">>,
                            <<"5", "1", "2", "*", "a", "b">>,
                            <<"a", "b", "*", "7", "6", "8">>,
                            <<"5", "1", "2", "x", "7", "6", "8">>,
                            <<"1", "*", "2", "*", "3">> } }
    ELSE { [prompt |-> "a cat"] }
         \cup { [prompt |-> "a cat", generateParams |-> gp] :
                   gp \in { [width |-> 512, height |-> 640],
                            [width |-> 512],
                            [imageSize |-> [width |-> 1024, height |-> 1024]],
                            [imageSize |-> [height |-> 640]],
                            [imageSize |-> EmptyDict],
                            [width |-> 512, imageSize |-> [width |-> 640, height |-> 640]] } }

InitSized ==
    /\ provider \in Providers
    /\ settings \in { s \in SettingsFor(provider) :
                         /\ s.ALIYUN_API_KEY # ""
                         /\ s.LIBLIBAI_ACCESS_KEY # "" /\ s.LIBLIBAI_SECRET_KEY # ""
                         /\ s.LIBLIBAI_SUPPORTED_MODELS = LIBLIBAI_SUPPORTED_MODELS }
    /\ model = IF provider = "aliyun" THEN "wanx2.1-t2i-turbo" ELSE "star-3-alpha-t2i"
    /\ parameters \in SizedBags(provider)
    /\ JobStart
    /\ OthersIdle

SpecSized == InitSized /\ [][Next]_vars

-----------------------------------------------------------------------------
(* validate_parameters and the request body as functions of their input:     *)
(* the provider, the settings, the model name and the caller's parameter     *)
(* bag are drawn from the sets below; validate_parameters is called on the   *)
(* caller's bag and on requests it has returned, and call_model is run up    *)
(* to its creation request.                                                  *)

\* largest image count n a caller supplies
MaxCount == 9

\* calls of validate_parameters recorded per behaviour
MaxValidations == 2

\* bags extended by an optional key with one of the values
WithOptional(bags, key, values) ==
    bags \cup { Put(b, key, v) : b \in bags, v \in values }

\* values a caller can give for a key that goes through int()
IntLikeValues(ints) ==
    { [int |-> n] : n \in ints } \cup { [str |-> <<"3">>], [str |-> <<"a", "b", "c">>] }

A_NormBags ==
    LET b1 == WithOptional({EmptyDict}, "prompt", {"a cat"})
        b2 == WithOptional(b1, "n", IntLikeValues((0 - 1) .. MaxCount))
        b3 == WithOptional(b2, "seed", IntLikeValues({7}))
        b4 == WithOptional(b3, "watermark", {"off"})
        b5 == WithOptional(b4, "ref_img", {"http://ref/img"})
        \* requests that differ in the reference-image, size and style keys
        r1 == WithOptional({[prompt |-> "a cat"]}, "ref_img", {"http://ref/img"})
        r2 == WithOptional(r1, "ref_strength", {"0.5"})
        r3 == WithOptional(r2, "ref_mode", {"refonly"})
        r4 == WithOptional(r3, "size", {<<"5", "1", "2", "*", "5", "1", "2">>})
    IN  WithOptional(b5, "negative_prompt", {"blurry"})
        \cup WithOptional(r4, "style", {"<anime>"})

B_NormBags ==
    LET b1 == WithOptional({EmptyDict}, "prompt", {"a cat"})
        b2 == WithOptional(b1, "sourceImage", {"src.png"})
        b3 == WithOptional(b2, "checkPointId", {"ckpt-1"})
        b4 == WithOptional(b3, "templateUuid", {"caller-template"})
        b5 == WithOptional(b4, "baseModelType", {"F.1", "XL"})
    IN  WithOptional(b5, "generateParams",
            { EmptyDict, [prompt |-> "a dog"], [aspectRatio |-> "square"],
              [imageSize |-> [width |-> 1024, height |-> 1024]], [imgCount |-> 4],
              [sourceImage |-> "gp-src.png"],
              [prompt |-> "a dog", aspectRatio |-> "square", imgCount |-> 4] })

InitNorm ==
    /\ provider \in Providers
    /\ settings \in SettingsFor(provider)
    /\ model \in ModelNames(provider)
    /\ parameters \in IF provider = "aliyun" THEN A_NormBags ELSE B_NormBags
    /\ JobStart
    /\ OthersIdle

\* await provider.validate_parameters(model, parameters).  A recorded call
\* keeps whether it was made on the caller's bag ("caller") or on a request that
\* an earlier call returned ("normalized"), the bag as it was when the call was
\* made, and what the call returned or raised.
Validate ==
    /\ pc = "start"
    /\ Len(validations) < MaxValidations
    /\ validations' = Append(validations,
            [kind |-> "caller", input |-> parameters,
             result |-> validate_parameters(provider, settings, model, parameters)])
    /\ parameters' = caller_parameters_after(provider, settings, model, parameters)
    /\ UNCHANGED <<provider, settings, model, pc, validated_params, request_data,
                   api_endpoint, job_id, i, response, status_response, results, k, images, outcome,
                   nCreate, nPolls, nDownloads, delivered, nFailedDl, cause>>
    /\ UNCHANGED <<sign_pc, signed_calls, uuid_drawn, clock, file_store, mat_next, requested, located,
                   elapsed, cancel_requested>>

\* await provider.validate_parameters(model, v) for a request v returned before
ValidateNormalized ==
    /\ pc = "start"
    /\ Len(validations) < MaxValidations
    /\ \E n \in DOMAIN validations :
          /\ validations[n].result.ok
          /\ validations' = Append(validations,
                  [kind |-> "normalized", input |-> validations[n].result.value,
                   result |-> validate_parameters(provider, settings, model,
                                                  validations[n].result.value)])
    /\ UNCHANGED <<jobvars, sign_pc, signed_calls, uuid_drawn, clock, file_store, mat_next, requested, located,
                   elapsed, cancel_requested>>

NextNorm == Validate \/ ValidateNormalized \/ CallModel

SpecNorm == InitNorm /\ [][NextNorm]_vars

-----------------------------------------------------------------------------
(* Request signing of provider B, over the jobs that run in one process.     *)
(* Only the requests of call_model are kept: the job-creation POST and the   *)
(* status POST of each loop iteration, each with the query parameters it     *)
(* carries.                                                                  *)

\* status queries one job sends in this view
MaxSignedPolls == 1

\* ticks of the clock in this view and in the artifact-store view
MaxClock == 1

SignJobs == {1, 2}

\* uuid.uuid4() as <<its first 8 hex digits, its other 24 hex digits>>.  A
\* version-4 UUID is taken to be unique: a draw gives a value that was not
\* drawn before in this process.  Its 8-digit prefix alone can repeat.
Uuid4Values == UuidHex8 \X (1 .. (MaxSignedPolls + 1))

\* uuid.uuid4().hex[:8]
Hex8(u) == u[1]

B_status_endpoint == "/api/generate/webui/status"

\* A request sent to vendor B is kept as: who sent it (job), its position among
\* the job's requests (seq), the resource path (uri) and the signature query
\* parameters it carries (params).

\* the signature parameters the job's creation request carried
creation_signature_params(j) ==
    (CHOOSE c \in signed_calls : c.job = j /\ c.seq = 1).params

\* variant: the status query is sent with the signature of the creation request
status_signature_params_Reused(created, fresh) == created

\* "status_signature_params = self.generate_signature(status_endpoint)" (341):
\* the status URL is built from the new signature, not from signature_params
status_signature_params(created, fresh) == fresh

InitSign ==
    /\ provider = "liblibai"
    /\ settings \in { s \in SettingsFor("liblibai") :
                         s.LIBLIBAI_SUPPORTED_MODELS = LIBLIBAI_SUPPORTED_MODELS }
    /\ model = "star-3-alpha-t2i"
    /\ parameters = EmptyDict
    /\ JobStart
    \* the two models whose endpoint does not depend on the parameters
    /\ sign_pc \in [SignJobs -> { [model |-> m, sent |-> 0, ended |-> FALSE] :
                                   m \in {"star-3-alpha-t2i", "star-3-alpha-i2i"} }]
    /\ signed_calls = {}
    /\ validations = <<>> /\ uuid_drawn = {} /\ clock = 0
    /\ file_store = <<>> /\ mat_next = <<>> /\ requested = <<>> /\ located = <<>>
    /\ elapsed = 0 /\ cancel_requested = FALSE

\* lines 264-308: the endpoint, generate_signature, then the creation POST
SignedCreate(j) ==
    /\ sign_pc[j].sent = 0 /\ ~sign_pc[j].ended
    /\ LET ep == B_api_endpoint(sign_pc[j].model, EmptyDict).value
       IN  IF B_credentials_missing(settings)
           THEN /\ sign_pc' = [sign_pc EXCEPT ![j].ended = TRUE]
                /\ UNCHANGED <<signed_calls, uuid_drawn>>
           ELSE \E u \in Uuid4Values \ uuid_drawn :
                  /\ uuid_drawn' = uuid_drawn \cup {u}
                  /\ signed_calls' = signed_calls \cup
                        { [job |-> j, seq |-> 1, uri |-> ep,
                           params |-> generate_signature(settings, ep, clock, u).value] }
                  /\ sign_pc' = [sign_pc EXCEPT ![j].sent = 1]
    /\ UNCHANGED <<jobvars, validations, clock, file_store, mat_next, requested, located,
                   elapsed, cancel_requested>>

\* lines 336-349: one loop iteration signs and sends its status POST
SignedPoll(j) ==
    /\ sign_pc[j].sent >= 1 /\ sign_pc[j].sent <= MaxSignedPolls
    /\ \E u \in Uuid4Values \ uuid_drawn :
          LET fresh == generate_signature(settings, B_status_endpoint, clock, u).value
          IN  /\ uuid_drawn' = uuid_drawn \cup {u}
              /\ signed_calls' = signed_calls \cup
                    { [job |-> j, seq |-> sign_pc[j].sent + 1, uri |-> B_status_endpoint,
                       params |-> status_signature_params(creation_signature_params(j),
                                                          fresh)] }
              /\ sign_pc' = [sign_pc EXCEPT ![j].sent = @ + 1]
    /\ UNCHANGED <<jobvars, validations, clock, file_store, mat_next, requested, located,
                   elapsed, cancel_requested>>

\* time passes
Tick ==
    /\ clock < MaxClock
    /\ clock' = clock + 1
    /\ UNCHANGED <<jobvars, validations, sign_pc, signed_calls, uuid_drawn, file_store, mat_next, requested, located,
                   elapsed, cancel_requested>>

NextSign == (\E j \in SignJobs : SignedCreate(j)) \/ (\E j \in SignJobs : SignedPoll(j)) \/ Tick

SpecSign == InitSign /\ [][NextSign]_vars

-----------------------------------------------------------------------------
(* The artifact store: the files under DATA_DIR, the image downloads of      *)
(* concurrently materializing jobs that write into it, and download_file     *)
(* (app/api/download.py) that looks a file name up in it.                    *)
(* A path is [dir, name]; dir is the sequence of directory names and name    *)
(* the sequence of the pieces of the file name's text.  A piece is a run of  *)
(* ordinary characters, or one glob item: "*", or a class such as "[1]".     *)

MatJobs == {1, 2}

\* DATA_DIR is the default of config.py line 57, which is the directory data
\* under the installation root, or a directory set in .env
\* the sub-configurations download_file and the providers read
FileSettings ==
    { [s EXCEPT !.DATA_DIR = d] :
        s \in {CHOOSE c \in SettingsFor("aliyun") : c.ALIYUN_API_KEY # ""},
        d \in {"/srv/app/data", "/mnt/data"} }

\* Path(settings.DATA_DIR), download.py line 28
data_dir == <<settings.DATA_DIR>>

flat_images_dir == data_dir \o <<"images">>

\* a store of files that no job of this process wrote (job 0)
StoreOf(files) == [ f \in files |-> [job |-> 0, index |-> 0] ]

\* what the store holds before the jobs of this view start
InitialStores ==
    LET x  == <<"x", ".png">>
        at(dir) == JoinPath(dir, x)
        exports == data_dir \o <<"exports">>
        old     == flat_images_dir \o <<"aliyun", "old">>
    IN  { StoreOf({}),
          StoreOf({at(flat_images_dir)}),
          StoreOf({at(flat_images_dir), at(flat_images_dir \o <<"aliyun">>)}),
          StoreOf({at(flat_images_dir \o <<"aliyun">>), at(flat_images_dir \o <<"liblibai">>)}),
          StoreOf({at(flat_images_dir \o <<"liblibai">>), at(exports)}),
          StoreOf({at(exports), at(old)}),
          StoreOf({JoinPath(exports, <<"a", "[1]", ".png">>)}),
          StoreOf({JoinPath(old, <<"a", "1", ".png">>)}) }

\* pathlib's pattern items: the characters a class item stands for
GlobClass(item) == IF item = "[1]" THEN {"1"} ELSE {}

\* fnmatch of one path component (pathlib.Path.glob, line 44)
RECURSIVE GlobMatch(_, _)
GlobMatch(pattern, nm) ==
    IF pattern = <<>> THEN nm = <<>>
    ELSE IF Head(pattern) = "*"
    THEN GlobMatch(Tail(pattern), nm) \/ (nm # <<>> /\ GlobMatch(pattern, Tail(nm)))
    ELSE IF GlobClass(Head(pattern)) # {}
    THEN nm # <<>> /\ Head(nm) \in GlobClass(Head(pattern))
                   /\ GlobMatch(Tail(pattern), Tail(nm))
    ELSE nm # <<>> /\ Head(nm) = Head(pattern) /\ GlobMatch(Tail(pattern), Tail(nm))

IsPrefix(a, b) == Len(a) <= Len(b) /\ SubSeq(b, 1, Len(a)) = a

\* data_dir.glob(f"**/{file_name}"): the files at any depth under data_dir
\* whose name matches file_name read as a pattern
glob_recursive(store, pattern) ==
    { f \in DOMAIN store : IsPrefix(data_dir, f.dir) /\ GlobMatch(pattern, f.name) }

FileResponse(path, nm) == [status |-> 200, path |-> path, filename |-> nm]
NotFound == [status |-> 404]

\* download_file(file_name): the answers it can give (matching_files[0] is
\* the first entry in directory order, which the code does not control)
download_file(store, nm) ==
    LET flat == JoinPath(flat_images_dir, nm)
        \* the provider directories that have the file, in the order of line 36
        hits == SelectSeq(<<"aliyun", "liblibai">>,
                    LAMBDA d : JoinPath(flat_images_dir \o <<d>>, nm) \in DOMAIN store)
    IN  IF flat \in DOMAIN store THEN { FileResponse(flat, nm) }
        ELSE IF hits # <<>>
        THEN { FileResponse(JoinPath(flat_images_dir \o <<hits[1]>>, nm), nm) }
        ELSE IF glob_recursive(store, nm) = {} THEN { NotFound }
        ELSE { FileResponse(f, nm) : f \in glob_recursive(store, nm) }

InitFiles ==
    /\ provider = "aliyun"
    /\ settings \in FileSettings
    /\ model = "wanx2.1-t2i-turbo"
    /\ parameters = EmptyDict
    /\ JobStart
    /\ file_store \in InitialStores
    /\ mat_next \in { f \in [MatJobs -> { [provider |-> p, index |-> 0] : p \in Providers }] :
                         f[1].provider = "aliyun" }
    /\ requested = <<>>
    /\ located = <<>>
    /\ validations = <<>> /\ sign_pc = <<>> /\ signed_calls = {}
    /\ uuid_drawn = {} /\ clock = 0
    /\ elapsed = 0 /\ cancel_requested = FALSE

\* one iteration of the loop of _format_response_and_download_images that
\* downloads: lines 329-335 (A), 427-433 (B), and download_image, whose
\* open(save_path, "wb") creates the file or truncates the one that is there
MaterializeImage(j) ==
    /\ mat_next[j].index < MaxImages
    /\ \E u \in Uuid4Values \ uuid_drawn, succeeds \in BOOLEAN :
          LET p         == mat_next[j].provider
              save_path == JoinPath(images_dir(p, settings),
                                    file_name(p, strftime(clock), mat_next[j].index, Hex8(u)))
          IN  /\ uuid_drawn' = uuid_drawn \cup {u}
              /\ file_store' = IF download_image(succeeds, save_path) = EmptyPath
                                THEN file_store
                                ELSE Put(file_store, save_path,
                                         [job |-> j, index |-> mat_next[j].index])
    /\ mat_next' = [mat_next EXCEPT ![j].index = @ + 1]
    /\ UNCHANGED <<jobvars, validations, sign_pc, signed_calls, clock, requested, located,
                   elapsed, cancel_requested>>

\* a client calls GET /{file_name}
DownloadFile ==
    /\ \E nm \in { <<"x", ".png">>, <<"missing", ".png">>, <<"*", ".png">>,
                   <<"a", "[1]", ".png">> }
                 \cup { f.name : f \in DOMAIN file_store } :
          /\ requested' = nm
          /\ located' \in download_file(file_store, nm)
    /\ UNCHANGED <<jobvars, validations, sign_pc, signed_calls, uuid_drawn, clock,
                   file_store, mat_next, elapsed, cancel_requested>>

NextFiles == (\E j \in MatJobs : MaterializeImage(j)) \/ DownloadFile \/ Tick

SpecFiles == InitFiles /\ [][NextFiles]_vars

-----------------------------------------------------------------------------
(* The lifetime of one job: how long call_model takes in logical time, and   *)
(* what happens when the caller cancels the task that runs it.  The job      *)
(* steps are those of call_model; of the exchanges only what decides the     *)
(* next step is kept.  asyncio.sleep(retry_interval) takes retry_interval    *)
(* units; an HTTP call or an image download takes any number of units.       *)

\* the time all HTTP calls and downloads of one job take together, at most
MaxHttpTime == 1

\* the durations the next HTTP call can have
HttpDurations ==
    { d \in 0 .. MaxHttpTime : (elapsed + d) - retry_interval * nPolls <= MaxHttpTime }

\* the status exchanges of this view: of the successful ones, those with the
\* sample image list or with none
LifeStatusResponses(p) ==
    { r \in StatusResponses(p) :
        (~IsTransportFailure(r) /\ poll_step(p, r).step = "materialize")
            => vendor_results(p, r.body)
                  \in {<<>>, IF p = "aliyun" THEN A_SampleList ELSE B_SampleList} }

\* variant: CancelledError is caught by "except Exception" and wrapped
on_cancelled_Wrapped(p) == ErrorOutcome(Wrap(p, <<>>))

\* asyncio.CancelledError raised at an await of call_model: it derives from
\* BaseException, so neither "except httpx.HTTPStatusError" nor "except
\* Exception" (270-283 A, 379-392 B, and 120 / 240 in download_image)
\* handles it, and it leaves call_model as it is
on_cancelled(p) == [kind |-> "cancelled", exc |-> "CancelledError"]

InitLife ==
    /\ provider \in Providers
    /\ settings \in { s \in SettingsFor(provider) :
                         /\ s.ALIYUN_API_KEY # ""
                         /\ s.LIBLIBAI_ACCESS_KEY # "" /\ s.LIBLIBAI_SECRET_KEY # ""
                         /\ s.LIBLIBAI_SUPPORTED_MODELS = LIBLIBAI_SUPPORTED_MODELS }
    /\ model = IF provider = "aliyun" THEN "wanx2.1-t2i-turbo" ELSE "star-3-alpha-t2i"
    /\ parameters \in {EmptyDict, [prompt |-> "a cat"]}
    /\ JobStart
    /\ OthersIdle

\* the creation POST completes after d units: lines 211-226 (A), 310-327 (B)
LifeCreateDone ==
    /\ pc = "create_wait" /\ ~cancel_requested
    /\ \E r \in CreateResponses(provider), d \in HttpDurations :
          /\ elapsed' = elapsed + d
          /\ LET h == handle_create(provider, r)
             IN  IF h.ok
                 THEN /\ job_id' = h.value
                      /\ pc' = "sleep"
                      /\ UNCHANGED <<outcome, delivered, cause>>
                 ELSE /\ Deliver(ErrorOutcome(h.error), "create_failed")
                      /\ UNCHANGED job_id
    /\ UNCHANGED <<provider, settings, model, parameters, validated_params, request_data,
                   api_endpoint, i, response, status_response, results, k, images,
                   nCreate, nPolls, nDownloads, nFailedDl>>
    /\ UNCHANGED <<validations, sign_pc, signed_calls, uuid_drawn, clock,
                   file_store, mat_next, requested, located, cancel_requested>>

\* asyncio.sleep(retry_interval) returns and the status query goes out
LifeSleepDone ==
    /\ pc = "sleep" /\ ~cancel_requested
    /\ LoopContinues(provider, i)
    /\ elapsed' = elapsed + retry_interval
    /\ nPolls' = nPolls + 1
    /\ pc' = "poll_wait"
    /\ UNCHANGED <<provider, settings, model, parameters, validated_params, request_data,
                   api_endpoint, job_id, i, response, status_response, results, k, images,
                   outcome, nCreate, nDownloads, delivered, nFailedDl, cause>>
    /\ UNCHANGED <<validations, sign_pc, signed_calls, uuid_drawn, clock,
                   file_store, mat_next, requested, located, cancel_requested>>

\* the status query completes after d units: lines 243-268 (A), 351-377 (B)
LifePollDone ==
    /\ pc = "poll_wait" /\ ~cancel_requested
    /\ \E r \in LifeStatusResponses(provider), d \in HttpDurations :
          /\ elapsed' = elapsed + d
          /\ LET st == poll_step(provider, r)
             IN  CASE st.step = "raise" ->
                        /\ Deliver(ErrorOutcome(st.error), "poll_failed")
                        /\ UNCHANGED <<i, results, k, images, nDownloads>>
                   [] st.step = "materialize" ->
                        /\ Materialize(vendor_results(provider, r.body), 1, <<>>)
                        /\ UNCHANGED i
                   [] OTHER ->
                        /\ i' = i + 1
                        /\ IF LoopContinues(provider, i + 1)
                           THEN /\ pc' = "sleep"
                                /\ UNCHANGED <<outcome, delivered, cause>>
                           ELSE Deliver(ErrorOutcome(Wrap(provider, TimeoutMsg(job_id))),
                                        "timeout")
                        /\ UNCHANGED <<results, k, images, nDownloads>>
    /\ UNCHANGED <<provider, settings, model, parameters, validated_params, request_data,
                   api_endpoint, job_id, response, status_response, nCreate, nPolls,
                   nFailedDl>>
    /\ UNCHANGED <<validations, sign_pc, signed_calls, uuid_drawn, clock,
                   file_store, mat_next, requested, located, cancel_requested>>

\* download_image returns after d units, then the loop over the images goes on
LifeDownloadDone ==
    /\ pc = "download_wait" /\ ~cancel_requested
    /\ \E succeeds \in BOOLEAN, d \in HttpDurations :
          LET save_path == JoinPath(images_dir(provider, settings),
                                    file_name(provider, strftime(0), k - 1, "0a1b2c3d"))
              saved     == download_image(succeeds, save_path)
          IN  /\ elapsed' = elapsed + d
              /\ nFailedDl' = IF succeeds THEN nFailedDl ELSE nFailedDl + 1
              /\ Materialize(results, k + 1,
                             Append(images, image_record(provider, results, k, saved)))
    /\ UNCHANGED <<provider, settings, model, parameters, validated_params, request_data,
                   api_endpoint, job_id, i, response, status_response, nCreate, nPolls>>
    /\ UNCHANGED <<validations, sign_pc, signed_calls, uuid_drawn, clock,
                   file_store, mat_next, requested, located, cancel_requested>>

\* the caller calls cancel() on the task while call_model is suspended
Cancel ==
    /\ pc \in {"create_wait", "sleep", "poll_wait", "download_wait"}
    /\ ~cancel_requested
    /\ cancel_requested' = TRUE
    /\ UNCHANGED <<jobvars, validations, sign_pc, signed_calls, uuid_drawn, clock,
                   file_store, mat_next, requested, located, elapsed>>

\* the event loop resumes the cancelled task by raising CancelledError at the
\* await it is suspended in; the call that was awaited is abandoned
Cancelled ==
    /\ cancel_requested /\ pc # "done"
    /\ Deliver(on_cancelled(provider), "cancelled")
    /\ UNCHANGED <<provider, settings, model, parameters, validated_params, request_data,
                   api_endpoint, job_id, i, response, status_response, results, k, images,
                   nCreate, nPolls, nDownloads, nFailedDl>>
    /\ UNCHANGED othervars

\* the steps of a job that nobody cancels
LifeRun ==
    CallModel \/ LifeCreateDone \/ LifeSleepDone \/ LifePollDone \/ LifeDownloadDone

NextLife == LifeRun \/ Cancel \/ Cancelled

SpecLife == InitLife /\ [][NextLife]_vars

\* A job that is not cancelled.  The event loop resumes a coroutine once the
\* call it awaits has completed, and every awaited call completes:
\* asyncio.sleep after its delay, an HTTP call with a response or, at the
\* latest after its timeout (120 s for the vendor calls, 30 s for a
\* download), with an exception.
FairLife ==
    /\ InitLife /\ [][LifeRun]_vars
    /\ WF_vars(CallModel) /\ WF_vars(LifeCreateDone) /\ WF_vars(LifeSleepDone)
    /\ WF_vars(LifePollDone) /\ WF_vars(LifeDownloadDone)

-----------------------------------------------------------------------------
(* Properties.  The vocabulary below is written from the statements being    *)
(* checked, not from the operators of the model.                             *)

\* the vendor status of a provider-A status body: top-level task_status,
\* else output.task_status, else none ("")
VendorStatusA(body) ==
    IF Has(body, "task_status") /\ body["task_status"] # "" THEN body["task_status"]
    ELSE IF Has(body, "output") /\ Has(body["output"], "task_status")
    THEN body["output"]["task_status"]
    ELSE ""

\* the generateStatus of a provider-B status body (0 when it carries none)
VendorStatusB(body) ==
    IF Has(body, "data") /\ Has(body["data"], "generateStatus")
    THEN body["data"]["generateStatus"]
    ELSE 0

\* the last completed status query was transported and answered with a
\* terminal vendor status
TerminalStatusSeen ==
    /\ status_response.kind = "ok"
    /\ IF provider = "aliyun"
       THEN VendorStatusA(status_response.body)
               \in {"SUCCEEDED", "COMPLETE", "SUCCESS", "FAILED", "CANCELLED", "ERROR"}
       ELSE VendorStatusB(status_response.body) \in {5, 6, 7}

SucceededSeen ==
    /\ status_response.kind = "ok"
    /\ IF provider = "aliyun"
       THEN VendorStatusA(status_response.body) \in {"SUCCEEDED", "COMPLETE", "SUCCESS"}
       ELSE VendorStatusB(status_response.body) = 5

\* the job is still in its polling loop
StillPolling == pc \in {"sleep", "poll_wait"} /\ i < 120

\* all 120 status queries were answered with a non-terminal status
BudgetExhausted == i = 120

\* C1: a job issues at most 120 status queries, and once a status query has
\* returned a terminal vendor status no further status query is issued.
C1_PollBudgetAndStop ==
    /\ [](nPolls <= 120)
    /\ [][TerminalStatusSeen => nPolls' = nPolls]_vars

C1_Witness ==
    /\ pc = "done"
    /\ nPolls = 120
    /\ TerminalStatusSeen

\* C2: a job that reached SUCCEEDED with a vendor image list of N entries, M of
\* whose downloads failed, returns a result (no error) with exactly N image
\* artifacts, exactly M of them with an empty local_path.
C2_AllEntriesReported ==
    (pc = "done" /\ SucceededSeen /\ (provider = "liblibai" => ~B_status_rejected(status_response.body)))
        => /\ outcome.kind = "result"
           /\ Len(outcome.value.images) = Len(results)
           /\ Cardinality({ j \in DOMAIN outcome.value.images :
                               outcome.value.images[j].local_path = EmptyPath }) = nFailedDl

\* the outcomes call_model delivers for a vendor-reported FAILED status
VendorFailedOutcomes ==
    { ErrorOutcome(poll_step(provider, r).error) :
        r \in { x \in StatusResponses(provider) :
                  /\ x.kind = "ok"
                  /\ IF provider = "aliyun"
                     THEN VendorStatusA(x.body) \in {"FAILED", "CANCELLED", "ERROR"}
                     ELSE VendorStatusB(x.body) \in {6, 7}
                  /\ poll_step(provider, x).step = "raise" } }

\* the outcomes call_model delivers for a transport error of a status query
TransportOutcomes ==
    { ErrorOutcome(poll_step(provider, r).error) :
        r \in { x \in StatusResponses(provider) : x.kind # "ok" } }

\* C3: when all 120 status queries return a non-terminal status the job ends
\* with no result and with an error outcome that differs from every outcome
\* delivered for a vendor-reported FAILED status or for a transport error.
C3_TimeoutDistinct ==
    BudgetExhausted
        => /\ pc = "done"
           /\ outcome.kind = "error"
           /\ outcome \notin VendorFailedOutcomes
           /\ outcome \notin TransportOutcomes

\* C4: the job-creation request completes before the first status query is
\* issued, every status query completes before the first image download
\* starts, and no status query is issued once materialization has begun.
C4_SubmitPollMaterializeOrder ==
    /\ [](nPolls > 0 => (nCreate = 1 /\ pc # "create_wait" /\ response.kind = "ok"))
    /\ []((nDownloads > 0 \/ k > 0) => (nPolls > 0 /\ pc \notin {"create_wait", "poll_wait"}))
    /\ [][(k > 0 \/ nDownloads > 0) => (nPolls' = nPolls /\ nCreate' = nCreate)]_vars

C4_Witness ==
    /\ pc = "download_wait"
    /\ nDownloads = 2
    /\ nPolls >= 2

\* C5: a job delivers at most one outcome; a result is delivered only after a
\* status query observed SUCCEEDED; never both a result and an error.
C5_AtMostOneOutcome ==
    /\ Len(delivered) <= 1
    /\ (\E j \in DOMAIN delivered : delivered[j] = "result")
          => (SucceededSeen /\ \A j \in DOMAIN delivered : delivered[j] # "error")
    /\ outcome.kind = "result" => SucceededSeen

C5_Witness ==
    /\ delivered = <<"result">>
    /\ Len(outcome.value.images) = 2
    /\ nPolls >= 2

\* C6: a status query that fails at the transport level (non-2xx status or
\* connection failure) ends the job with an error; afterwards no status
\* query, no job creation and no image download is issued.
C6_PollTransportFatal ==
    /\ [](status_response.kind \in {"http_error", "conn_error"}
             => (pc = "done" /\ outcome.kind = "error" /\ nDownloads = 0))
    /\ [][status_response.kind \in {"http_error", "conn_error"}
             => (nPolls' = nPolls /\ nCreate' = nCreate /\ nDownloads' = nDownloads)]_vars

C6_Witness ==
    /\ status_response.kind = "http_error"
    /\ status_response.body # EmptyDict
    /\ nPolls >= 2
    /\ pc = "done"

\* what the job does after a transported status response, by vendor status
EndsSucceeded == pc = "download_wait" \/ (pc = "done" /\ outcome.kind = "result")
EndsFailed    == pc = "done" /\ outcome.kind = "error" /\ i < 120
StaysRunning  == StillPolling \/ (pc = "done" /\ outcome.kind = "error" /\ BudgetExhausted)

\* C7 as stated: for provider B every transported poll response is mapped by
\* generateStatus alone: 5 -> SUCCEEDED, 6 or 7 -> FAILED, anything else
\* leaves the job RUNNING; nothing else in the response ends the job.
C7_MappingByStatusOnly ==
    (provider = "liblibai" /\ status_response.kind = "ok")
        => LET g == VendorStatusB(status_response.body)
           IN  /\ g = 5 => EndsSucceeded
               /\ g \in {6, 7} => EndsFailed
               /\ g \notin {5, 6, 7} => StaysRunning

\* C7 amended: a transported poll response whose top-level code is 0 is
\* mapped by generateStatus (5 -> SUCCEEDED, 6 or 7 -> FAILED, anything else
\* RUNNING); a transported poll response whose code is absent or not 0 ends
\* the job with an error whatever its generateStatus.
C7_MappingWhenCodeZero ==
    (provider = "liblibai" /\ status_response.kind = "ok")
        => LET g == VendorStatusB(status_response.body)
               body == status_response.body
           IN  IF Has(body, "code") /\ body["code"] = 0
               THEN /\ g = 5 => EndsSucceeded
                    /\ g \in {6, 7} => EndsFailed
                    /\ g \notin {5, 6, 7} => StaysRunning
               ELSE EndsFailed

C7_Witness ==
    /\ provider = "liblibai"
    /\ status_response.kind = "ok"
    /\ Has(status_response.body, "code") /\ status_response.body["code"] = 0
    /\ VendorStatusB(status_response.body) = 7
    /\ EndsFailed
    /\ nPolls >= 2

\* C8: for provider A the vendor status (top-level task_status, else
\* output.task_status) is mapped SUCCEEDED|COMPLETE|SUCCESS -> SUCCEEDED,
\* FAILED|CANCELLED|ERROR -> FAILED, anything else (also missing or empty)
\* leaves the job RUNNING.
C8_StatusMappingA ==
    (provider = "aliyun" /\ status_response.kind = "ok")
        => LET v == VendorStatusA(status_response.body)
           IN  /\ v \in {"SUCCEEDED", "COMPLETE", "SUCCESS"} => EndsSucceeded
               /\ v \in {"FAILED", "CANCELLED", "ERROR"} => EndsFailed
               /\ v \notin {"SUCCEEDED", "COMPLETE", "SUCCESS", "FAILED", "CANCELLED", "ERROR"}
                     => StaysRunning

C8_Witness ==
    /\ provider = "aliyun"
    /\ status_response.kind = "ok"
    /\ ~Has(status_response.body, "task_status")
    /\ VendorStatusA(status_response.body) = "COMPLETE"
    /\ pc = "done" /\ outcome.kind = "result"
    /\ nPolls >= 2

\* the required keys of a model's variant
RequiredKeys(p, m) ==
    IF p = "aliyun" THEN {"prompt"}
    ELSE CASE m = "star-3-alpha-t2i" -> {"prompt"}
           [] m = "star-3-alpha-i2i" -> {"prompt", "sourceImage"}
           [] m = "liblib-custom"    -> {"checkPointId", "prompt"}
           [] OTHER                  -> {}

CredentialsUnconfigured ==
    IF provider = "aliyun" THEN settings.ALIYUN_API_KEY = ""
    ELSE settings.LIBLIBAI_ACCESS_KEY = "" \/ settings.LIBLIBAI_SECRET_KEY = ""

ModelUnsupported ==
    IF provider = "aliyun" THEN model \notin settings.ALIYUN_SUPPORTED_MODELS
    ELSE model \notin settings.LIBLIBAI_SUPPORTED_MODELS

InvalidCall ==
    \/ ModelUnsupported
    \/ \E key \in RequiredKeys(provider, model) : key \notin DOMAIN parameters
    \/ CredentialsUnconfigured

\* C9: a call with an unsupported model, a missing required parameter or
\* unconfigured credentials fails with an error, and no HTTP request (job
\* creation, status query, download) is issued for it.
C9_InvalidCallNoHttp ==
    InvalidCall
        => /\ nCreate = 0 /\ nPolls = 0 /\ nDownloads = 0
           /\ pc = "start" \/ (pc = "done" /\ outcome.kind = "error")

C9_Witness ==
    /\ pc = "done"
    /\ CredentialsUnconfigured
    /\ ~ModelUnsupported
    /\ \A key \in RequiredKeys(provider, model) : key \in DOMAIN parameters
    /\ outcome.kind = "error"

\* the job-creation response yields no job identifier
NoJobIdentifier ==
    /\ response.kind = "ok"
    /\ IF provider = "aliyun"
       THEN \/ ~Has(response.body, "output")
            \/ ~Has(response.body["output"], "task_id")
            \/ response.body["output"]["task_id"] = <<>>
       ELSE \/ ~Has(response.body, "code")
            \/ response.body["code"] # 0
            \/ ~Has(response.body, "data")
            \/ ~Has(response.body["data"], "generateUuid")
            \/ response.body["data"]["generateUuid"] = <<>>

\* C10: if the job-creation response yields no job identifier, or the
\* creation request returns a non-2xx status, the job ends with an error and
\* no status query is ever issued.
C10_NoIdNoPolling ==
    (NoJobIdentifier \/ response.kind = "http_error")
        => /\ pc = "done"
           /\ outcome.kind = "error"
           /\ nPolls = 0 /\ nDownloads = 0

C10_Witness ==
    /\ provider = "liblibai"
    /\ response.kind = "ok"
    /\ Has(response.body, "code") /\ response.body["code"] # 0
    /\ Has(response.body, "data") /\ Has(response.body["data"], "generateUuid")
    /\ pc = "done"
    /\ outcome.kind = "error"

-----------------------------------------------------------------------------
\* the HTTP requests sent to vendor B so far that carry nonce x
CallsWithNonce(x) == { c \in signed_calls : c.params.SignatureNonce = x }

\* the signature is the one generate_signature computes for this very request:
\* over its own resource path, its own timestamp and its own nonce
SignedForItself(c) ==
    c.params.Signature.signed = <<c.uri, c.params.Timestamp, c.params.SignatureNonce>>

-----------------------------------------------------------------------------
\* C12: with jobs materializing concurrently, the artifact store is
\* append-only: no step writes to a path that already holds a file (every
\* file keeps the content it was created with) and no step deletes a file.
C12_AppendOnlyStore ==
    [][\A f \in DOMAIN file_store :
          f \in DOMAIN file_store' /\ file_store'[f] = file_store[f]]_vars

\* a directory of the store holds a file of exactly this name
HoldsNamed(dir, nm) == JoinPath(dir, nm) \in DOMAIN file_store

InFlatDirectory(nm) == HoldsNamed(flat_images_dir, nm)

InProviderDirectory(d, nm) == HoldsNamed(flat_images_dir \o <<d>>, nm)

\* some directory at any depth of the store holds a file of exactly this name
InStoreAtAnyDepth(nm) ==
    \E f \in DOMAIN file_store : IsPrefix(data_dir, f.dir) /\ f.name = nm

\* a call of download_file has just answered
LookupAnswered == <<requested, located>>' # <<requested, located>>

\* C13: download_file looks in the flat images directory, then in aliyun, then
\* in liblibai, then recursively in the whole store; it answers with the file
\* of the earliest stage that has one of that name, and with 404 exactly when
\* no stage holds a file of that name.
C13_LookupByStage ==
    [][LookupAnswered =>
        LET nm  == requested'
            ans == located'
            s1  == InFlatDirectory(nm)
            s2a == InProviderDirectory("aliyun", nm)
            s2b == InProviderDirectory("liblibai", nm)
            s3  == InStoreAtAnyDepth(nm)
        IN  /\ s1 => ans = FileResponse(JoinPath(flat_images_dir, nm), nm)
            /\ (~s1 /\ s2a)
                 => ans = FileResponse(JoinPath(flat_images_dir \o <<"aliyun">>, nm), nm)
            /\ (~s1 /\ ~s2a /\ s2b)
                 => ans = FileResponse(JoinPath(flat_images_dir \o <<"liblibai">>, nm), nm)
            /\ (~s1 /\ ~s2a /\ ~s2b /\ s3)
                 => ans.status = 200 /\ ans.path \in DOMAIN file_store /\ ans.path.name = nm
            /\ (ans = NotFound) <=> ~(s1 \/ s2a \/ s2b \/ s3)]_vars

-----------------------------------------------------------------------------
\* the recorded calls of validate_parameters on the caller's own bag
CallerValidations ==
    { validations[n] : n \in { x \in DOMAIN validations : validations[x].kind = "caller" } }

\* a required key of the model's variant is absent from the bag
MissingRequired(bag) == \E key \in RequiredKeys(provider, model) : key \notin DOMAIN bag

\* the texts of a missing-required-parameter error for a key
MissingRequiredErrors(key) ==
    { <<"Parameter '" \o key \o "' is required" \o variant>> :
        variant \in { "", " for Star-3 Alpha text-to-image",
                       " for Star-3 Alpha image-to-image", " for LiblibAI custom model" } }

\* the error names a required key that the bag lacks
IsMissingRequiredError(err, bag) ==
    \E key \in RequiredKeys(provider, model) \ DOMAIN bag : err \in MissingRequiredErrors(key)

IsDecimalText(cs) ==
    LET ds == IF cs # <<>> /\ cs[1] \in {"+", "-"} THEN Tail(cs) ELSE cs
    IN  ds # <<>> /\ \A j \in DOMAIN ds :
                        ds[j] \in {"0", "1", "2", "3", "4", "5", "6", "7", "8", "9"}

\* the value is an integer or the text of a decimal integer
IntConvertible(x) == "int" \in DOMAIN x \/ IsDecimalText(x.str)

\* provider A is given an n or a seed that is not convertible to an integer
UnconvertibleCount(bag) ==
    /\ provider = "aliyun"
    /\ \E key \in {"n", "seed"} \cap DOMAIN bag : ~IntConvertible(bag[key])

A_RecognizedKeys ==
    {"model", "prompt", "size", "n", "negative_prompt", "style", "ref_img",
     "ref_strength", "ref_mode", "seed"}

\* C15: for provider A every caller-supplied key that the normalizer does not
\* recognize is in the parameters object of the job-creation request body,
\* with the caller's value.
C15_UnrecognizedKeysForwarded ==
    (provider = "aliyun" /\ nCreate = 1)
        => \A key \in DOMAIN parameters \ A_RecognizedKeys :
              /\ key \in DOMAIN request_data["parameters"]
              /\ request_data["parameters"][key] = parameters[key]

\* a creation request went out for a bag with an unrecognized key
C15_Witness ==
    /\ provider = "aliyun" /\ nCreate = 1
    /\ DOMAIN parameters \ A_RecognizedKeys # {}
    /\ "n" \in DOMAIN parameters

\* C16: calling validate_parameters twice on the same input gives identical
\* outputs (the same error, or equal normalized requests), and normalizing a
\* request that is already normalized returns it unchanged.
C16_DeterministicAndIdempotent ==
    /\ \A a, b \in CallerValidations : a.result = b.result
    /\ \A n \in DOMAIN validations :
          validations[n].kind = "normalized"
              => /\ validations[n].result.ok
                 /\ validations[n].result.value = validations[n].input

\* a bag that normalization changed was normalized, and its result again
C16_Witness ==
    /\ Len(validations) = 2
    /\ validations[1].kind = "caller" /\ validations[1].result.ok
    /\ validations[1].result.value # validations[1].input
    /\ validations[2].kind = "normalized"
    /\ "seed" \in DOMAIN validations[1].input

\* C17: validate_parameters leaves the caller's parameter bag, nested
\* generateParams included, with exactly the keys and values it had before
\* the call, whether the call returns or raises.
C17_CallerBagUntouched == [][parameters' = parameters]_vars

\* C18: for provider B, whenever validate_parameters returns without error for
\* a model of the configured supported-model list, the returned request has
\* both a templateUuid and a generateParams object.
C18_TemplateAndGenerateParams ==
    \A e \in CallerValidations :
        (provider = "liblibai" /\ ~ModelUnsupported /\ e.result.ok)
            => /\ "templateUuid" \in DOMAIN e.result.value
               /\ "generateParams" \in DOMAIN e.result.value

\* n limited to the range 1 .. 4
ClampedCount(n) == IF n < 1 THEN 1 ELSE IF n > 4 THEN 4 ELSE n

\* C19: for provider A and every integer n the caller supplies, the
\* normalized n is n limited to [1, 4] (9 gives 4); without n it is 1.
C19_CountClamped ==
    \A e \in CallerValidations :
        (provider = "aliyun" /\ e.result.ok)
            => IF "n" \in DOMAIN e.input
               THEN "int" \in DOMAIN e.input["n"]
                       => /\ e.result.value["n"] = [int |-> ClampedCount(e.input["n"].int)]
                          /\ e.result.value["n"].int \in 1 .. 4
               ELSE e.result.value["n"] = [int |-> 1]

\* n = 9 was normalized
C19_Witness ==
    /\ provider = "aliyun"
    /\ \E e \in CallerValidations :
          /\ e.result.ok
          /\ "n" \in DOMAIN e.input /\ e.input["n"] = [int |-> 9]
          /\ e.result.value["n"] = [int |-> 4]

\* the generateParams object the caller supplied (none: the empty object)
CallerGenerateParams(bag) ==
    IF "generateParams" \in DOMAIN bag THEN bag["generateParams"] ELSE <<>>

\* C20: for provider B and star-3-alpha-t2i, a bag with only prompt p is
\* normalized to generateParams.prompt = p, aspectRatio = "portrait",
\* imgCount = 1 and the fixed text-to-image template; the aspectRatio
\* default is applied only when the caller's generateParams has neither
\* aspectRatio nor imageSize, and no default replaces a caller-supplied value.
C20_StarT2IDefaults ==
    \A e \in CallerValidations :
        (provider = "liblibai" /\ model = "star-3-alpha-t2i" /\ e.result.ok)
            => LET given == CallerGenerateParams(e.input)
                   out   == e.result.value
                   gp    == out["generateParams"]
               IN  /\ DOMAIN e.input = {"prompt"}
                        => /\ gp["prompt"] = e.input["prompt"]
                           /\ gp["aspectRatio"] = "portrait"
                           /\ gp["imgCount"] = 1
                           /\ out["templateUuid"] = "5d7e67009b344550bc1aa6ccbfa1d7f4"
                   /\ ("aspectRatio" \in DOMAIN gp /\ "aspectRatio" \notin DOMAIN given)
                        => "imageSize" \notin DOMAIN given /\ gp["aspectRatio"] = "portrait"
                   /\ \A key \in DOMAIN given : gp[key] = given[key]
                   /\ "templateUuid" \in DOMAIN e.input
                        => out["templateUuid"] = e.input["templateUuid"]

\* a text-to-image bag with only a prompt was normalized
C20_Witness ==
    /\ provider = "liblibai" /\ model = "star-3-alpha-t2i"
    /\ \E e \in CallerValidations : DOMAIN e.input = {"prompt"} /\ e.result.ok
-----------------------------------------------------------------------------
\* the caller names the F.1 base-model family
FamilyIsF1(bag) ==
    "baseModelType" \in DOMAIN bag /\ bag["baseModelType"] \in {"F.1", "f.1", "F1", "f1"}

\* the caller supplied a source image, at the top level or in generateParams
SourceImageSupplied(bag) ==
    "sourceImage" \in DOMAIN bag \/ "sourceImage" \in DOMAIN CallerGenerateParams(bag)

\* the template of a (family is F.1, request is image-to-image) pair
CustomTemplateOf(f1, i2i) ==
    IF i2i THEN (IF f1 THEN "63b72710c9574457ba303d9d9b8df8bd"
                 ELSE "9c7d531dc75f476aa833b3d452b8f7ad")
    ELSE (IF f1 THEN "6f7c4652458d4802969f8d089cf5b91f"
          ELSE "e10adc3949ba59abbe56e057f20f883e")

\* C21: for provider B and liblib-custom without a caller-supplied
\* templateUuid, the normalized templateUuid is the one of four different
\* fixed identifiers that belongs to the pair (family is F.1 or not, request
\* is image-to-image or not), where a request for which the caller supplied
\* a source image is image-to-image.
C21_TemplateByFamilyAndMode ==
    /\ Cardinality({ CustomTemplateOf(f1, i2i) : f1 \in BOOLEAN, i2i \in BOOLEAN }) = 4
    /\ \A e \in CallerValidations :
          (/\ provider = "liblibai" /\ model = "liblib-custom" /\ e.result.ok
           /\ "templateUuid" \notin DOMAIN e.input)
              => e.result.value["templateUuid"]
                    = CustomTemplateOf(FamilyIsF1(e.input), SourceImageSupplied(e.input))

\* C22: for provider A the normalizer fills size, n, negative_prompt and
\* style when the caller's bag lacks them, and adds ref_strength = 1.0 and
\* ref_mode = "repaint" exactly when the bag has a reference image and lacks
\* the respective key; without a reference image it adds neither.
C22_DefaultsA ==
    \A e \in CallerValidations :
        (provider = "aliyun" /\ e.result.ok)
            => LET given == e.input
                   out   == e.result.value
               IN  /\ "size" \notin DOMAIN given
                        => out["size"] = <<"1", "0", "2", "4", "*", "1", "0", "2", "4">>
                   /\ "n" \notin DOMAIN given => out["n"] = [int |-> 1]
                   /\ "negative_prompt" \notin DOMAIN given => out["negative_prompt"] = ""
                   /\ "style" \notin DOMAIN given => out["style"] = "<auto>"
                   /\ \A key \in {"size", "negative_prompt", "style", "ref_strength", "ref_mode"}
                                  \cap DOMAIN given : out[key] = given[key]
                   /\ \A key \in {"ref_strength", "ref_mode"} \ DOMAIN given :
                         /\ key \in DOMAIN out <=> "ref_img" \in DOMAIN given
                         /\ key \in DOMAIN out
                              => out[key] = (IF key = "ref_strength" THEN "1.0" ELSE "repaint")

\* a bag with a reference image and its own ref_mode but no ref_strength,
\* and a bag without a reference image, were normalized
C22_Witness ==
    /\ provider = "aliyun"
    /\ \E e \in CallerValidations :
          /\ e.result.ok
          /\ {"ref_img", "ref_mode"} \subseteq DOMAIN e.input
          /\ "ref_strength" \notin DOMAIN e.input
          /\ e.result.value["ref_strength"] = "1.0"
          /\ e.result.value["ref_mode"] = "refonly"

\* the two image-to-image templates of the custom model
CustomI2ITemplates ==
    {"63b72710c9574457ba303d9d9b8df8bd", "9c7d531dc75f476aa833b3d452b8f7ad"}

\* C27: for provider B and liblib-custom without a caller-supplied
\* templateUuid, the job-creation request is posted to the image-to-image
\* endpoint if and only if its templateUuid is one of the two image-to-image
\* templates, whatever the bag (source image at the top level only, inside
\* generateParams only, both or neither).
C27_EndpointAgreesWithTemplate ==
    (/\ provider = "liblibai" /\ model = "liblib-custom" /\ nCreate = 1
     /\ "templateUuid" \notin DOMAIN parameters)
        => /\ api_endpoint \in {"/api/generate/webui/img2img", "/api/generate/webui/text2img"}
           /\ api_endpoint = "/api/generate/webui/img2img"
                 <=> request_data["templateUuid"] \in CustomI2ITemplates

\* a custom-model request went out for a bag whose only source image is at
\* the top level
C27_Witness ==
    /\ provider = "liblibai" /\ model = "liblib-custom" /\ nCreate = 1
    /\ "templateUuid" \notin DOMAIN parameters
    /\ "sourceImage" \in DOMAIN parameters
    /\ "sourceImage" \notin DOMAIN request_data["generateParams"]
    /\ api_endpoint = "/api/generate/webui/text2img"
-----------------------------------------------------------------------------
\* the number a decimal text (optional sign, digits) stands for
RECURSIVE DecimalValue(_)
DecimalValue(cs) ==
    IF cs = <<>> THEN 0
    ELSE IF cs[1] = "+" THEN DecimalValue(Tail(cs))
    ELSE IF cs[1] = "-" THEN 0 - DecimalValue(Tail(cs))
    ELSE LET last == cs[Len(cs)]
             d == CHOOSE n \in 0 .. 9 : ToString(n) = last
         IN  10 * DecimalValue(SubSeq(cs, 1, Len(cs) - 1)) + d

\* the positions at which a size text can be read as "<w>*<h>": one "*"
\* with the text of an integer on either side
WxHAt(sz) ==
    { j \in DOMAIN sz :
        /\ sz[j] = "*"
        /\ \A h \in DOMAIN sz : sz[h] = "*" => h = j
        /\ IsDecimalText(SubSeq(sz, 1, j - 1))
        /\ IsDecimalText(SubSeq(sz, j + 1, Len(sz))) }

\* the size text of a provider-A request (the default when the caller gave none)
RequestedSizeA ==
    IF "size" \in DOMAIN parameters THEN parameters["size"]
    ELSE <<"1", "0", "2", "4", "*", "1", "0", "2", "4">>

\* C25: the result's size fields follow the provider rule.  A: a size
\* "<w>*<h>" with integer w and h gives width = w and height = h, any other
\* size text is carried over as the raw size.  B: generateParams width and
\* height when both are given, else the imageSize object's width and height
\* (768 and 1024 for the one that is missing), else 768 and 1024.
C25_SizeFieldsByProviderRule ==
    outcome.kind = "result"
        => LET res == outcome.value
           IN  IF provider = "aliyun"
               THEN IF WxHAt(RequestedSizeA) # {}
                    THEN \A j \in WxHAt(RequestedSizeA) :
                           /\ res["width"] = DecimalValue(SubSeq(RequestedSizeA, 1, j - 1))
                           /\ res["height"] = DecimalValue(SubSeq(RequestedSizeA, j + 1,
                                                                  Len(RequestedSizeA)))
                    ELSE "size" \in DOMAIN res /\ res["size"] = RequestedSizeA
               ELSE LET gp == request_data["generateParams"]
                    IN  IF {"width", "height"} \subseteq DOMAIN gp
                        THEN res["width"] = gp["width"] /\ res["height"] = gp["height"]
                        ELSE IF "imageSize" \in DOMAIN gp
                        THEN /\ res["width"] = (IF "width" \in DOMAIN gp["imageSize"]
                                                THEN gp["imageSize"]["width"] ELSE 768)
                             /\ res["height"] = (IF "height" \in DOMAIN gp["imageSize"]
                                                 THEN gp["imageSize"]["height"] ELSE 1024)
                        ELSE res["width"] = 768 /\ res["height"] = 1024

\* a result was returned for a request whose imageSize object has no width
C25_Witness ==
    /\ provider = "liblibai" /\ outcome.kind = "result"
    /\ "imageSize" \in DOMAIN request_data["generateParams"]
    /\ "width" \notin DOMAIN request_data["generateParams"]["imageSize"]
    /\ "height" \in DOMAIN request_data["generateParams"]["imageSize"]
    /\ outcome.value["width"] = 768 /\ outcome.value["height"] = 640

\* C26: every result of provider A has a consistent size description: width
\* if and only if height, and either the (width, height) pair or the raw size
\* text, never both a width and a raw size.
C26_ConsistentSizeA ==
    (provider = "aliyun" /\ outcome.kind = "result")
        => LET keys == DOMAIN outcome.value
           IN  /\ "width" \in keys <=> "height" \in keys
               /\ "width" \in keys \/ "size" \in keys
               /\ ~("width" \in keys /\ "size" \in keys)
-----------------------------------------------------------------------------
\* the job has ended with a result or an error
TerminalOutcome == pc = "done" /\ outcome.kind \in {"result", "error"}

\* C23: in logical time where each inter-poll delay costs 15 units, a job
\* reaches its terminal outcome (result or error) no later than 15 x 120 =
\* 1800 units after its submission, whatever the vendor answers and however
\* long the HTTP calls and the image downloads take.
C23_LifetimeWithinBudget == TerminalOutcome => elapsed <= 1800

\* C24: once the caller has cancelled a job, no status query, no image
\* download and no job creation is started any more, and the job does not
\* end with a result or with an ordinary job error.
C24_CancelStopsJob ==
    /\ [][cancel_requested
            => (nPolls' = nPolls /\ nDownloads' = nDownloads /\ nCreate' = nCreate)]_vars
    /\ []((cancel_requested /\ pc = "done") => outcome.kind \notin {"result", "error"})
    /\ [](outcome.kind \in {"result", "error"} => ~cancel_requested)

\* a job was cancelled while it waited for its second status query, before
\* any terminal status, and has ended
C24_Witness ==
    /\ cancel_requested /\ pc = "done"
    /\ nPolls = 2 /\ i = 1 /\ nDownloads = 0
    /\ outcome.kind = "cancelled"

\* C28: every call of call_model terminates: under fair scheduling, with HTTP
\* calls that each return or fail, a job that is not cancelled eventually has
\* delivered exactly one outcome, a result or an error, and stays so,
\* whatever the vendor answers; no job polls forever.
C28_EveryJobEnds == <>[](TerminalOutcome /\ Len(delivered) = 1)

\* a job ended by exhausting its polling budget
C28_Witness ==
    /\ pc = "done" /\ nPolls = 120 /\ i = 120 /\ ~cancel_requested
    /\ outcome.kind = "error" /\ Len(delivered) = 1

-----------------------------------------------------------------------------
\* C29: an artifact that a job wrote (its local_path is the path of the file
\* in the store) is found again by download_file called with the bare file
\* name, and the answer carries exactly the path the file was written to,
\* whichever provider wrote it and whatever DATA_DIR is configured.
C29_RoundTrip ==
    \A f \in DOMAIN file_store :
        (file_store[f].job # 0 /\ requested = f.name) => located = FileResponse(f, f.name)

\* the same round trip for the default DATA_DIR only
C29_RoundTripDefaultDir ==
    settings.DATA_DIR = "/srv/app/data" => C29_RoundTrip

====
